---- MODULE Spec2Model ----
(***************************************************************************)
(* A model of radeco's SSA construction front end:                         *)
(*   - SubRegisterFile::new (middle/regfile.rs): clustering of register    *)
(*     descriptors into whole registers and sub-registers,                 *)
(*   - the partial register read / write code of regfile.rs,               *)
(*   - SSAConstruct (frontend/ssaconstructor.rs): the lifter,              *)
(*   - lower_simpleast (middle/ir_reader/lowering.rs), the per-function    *)
(*     loop of minidec, the phi placer and dead code elimination.          *)
(***************************************************************************)
EXTENDS Integers, Sequences, FiniteSets, TLC

VARIABLES
    \* SubRegisterFile::new
    reg_info,      \* the register descriptors of the profile (LRegInfo.reg_info)
    events,        \* the filtered, sorted descriptors
    rf_pc,         \* "new" | "walk" | "done" | "panic"
    rf_i,          \* index of the next event of the walk (1-based)
    current,       \* the whole register the walk is in
    whole,         \* whole_registers: the widths of the whole registers
    names,         \* whole_names
    slices         \* named_registers: name -> SubRegister

rf_vars == <<reg_info, events, rf_pc, rf_i, current, whole, names, slices>>

VARIABLES
    \* write_register / read_register on one register of one whole register
    pw_width,      \* the width W of the whole register (phip.variable_types[id])
    pw_info,       \* the SubRegister written and read (named_registers[var])
    pw_old,        \* the value of the whole register before the write
    pw_value,      \* the value written: [val, width]
    pw_def,        \* the current definition of the whole register (its value)
    pw_read,       \* the value read_register returned
    pw_pc          \* "start" | "written" | "read"

pw_vars == <<pw_width, pw_info, pw_old, pw_value, pw_def, pw_read, pw_pc>>

VARIABLES
    \* SSAConstruct::run, with the PhiPlacer and the SSA graph
    nodes,            \* the value nodes of the SSA graph, in creation order
    blocks,           \* PhiPlacer.blocks: the addresses of the basic blocks
    edges,            \* the control edges, in insertion order
    defs,             \* PhiPlacer current definitions: <<block, variable>> -> node
    incomplete,       \* PhiPlacer incomplete phis: <<block, variable, phi>>
    sealed,           \* PhiPlacer sealed blocks
    intermediates,    \* SSAConstruct.intermediates
    constants,        \* SSAConstruct.constants: value -> node
    nesting,          \* SSAConstruct.nesting: <<ite node, address>>
    needs_new_block,  \* SSAConstruct.needs_new_block
    current_address,  \* run(): current_address
    lf_pc,            \* "new" | "ops" | "tokens" | "done" | "panic"
    n_ops,            \* instructions of op_info consumed
    n_toks,           \* tokens the parser has yielded
    token,            \* run(): the token being processed
    operands,         \* run(): the operands fetched for it, <<lhs, rhs>>
    lhs,              \* process_op(): lhs (0 is None)
    rhs,              \* process_op(): rhs (0 is None)
    call_def          \* per whole register: the Comment and block of the last
                      \* call, until the register is written again

lf_vars == <<nodes, blocks, edges, defs, incomplete, sealed, intermediates, constants,
             nesting, needs_new_block, current_address, lf_pc, n_ops, n_toks, token,
             operands, lhs, rhs, call_def>>

VARIABLES
    lw_st,   \* lower_simpleast: the LowerSsa value, its SSAStorage, its position
    mn_st,   \* minidec main: the per-function loop
    pp_st,   \* the phi placer on its own: CFG, definitions, phis, ReplacedBy
    dc_st    \* dead code elimination

aux_vars == <<lw_st, mn_st, pp_st, dc_st>>

vars == <<rf_vars, pw_vars, lf_vars, aux_vars>>

-----------------------------------------------------------------------------
(* Bounds of the register profiles explored.                                *)
MaxRegs == 2
MaxOff == 2
MaxSize == 2
\* The width of the machine word the register arithmetic is explored at
\* (u64 in the source), and so the widest whole register.
WordBits == 3

-----------------------------------------------------------------------------
(* middle/regfile.rs                                                        *)

SubRegister(base, shift, width) == [base |-> base, shift |-> shift, width |-> width]

\* A register descriptor of the profile. Its name is unique in the profile;
\* `flags` says that the name ends with "flags".
Descriptors ==
    [offset : 0..MaxOff, size : 1..MaxSize, type_str : {"gpr", "fpu"}, flags : BOOLEAN]

RegName(i) == ToString(i)

\* regfile.rs:70-75: the descriptors that are skipped.
Filtered(reg) == reg.type_str = "fpu" \/ reg.flags

\* regfile.rs:68-77: one event per descriptor kept; base is the descriptor's
\* index in reg_info.
RECURSIVE CollectEvents(_, _)
CollectEvents(regs, i) ==
    IF i > Len(regs) THEN <<>>
    ELSE IF Filtered(regs[i]) THEN CollectEvents(regs, i + 1)
         ELSE <<SubRegister(i, regs[i].offset, regs[i].size)>> \o CollectEvents(regs, i + 1)

\* regfile.rs:79-86: the comparator; TRUE when a sorts strictly before b.
EventLess(a, b) ==
    IF a.shift = b.shift THEN (b.width + b.shift) < (a.width + a.shift)
    ELSE a.shift < b.shift

\* Stable insertion of e into the sorted sequence s (after its equals).
RECURSIVE InsertSorted(_, _)
InsertSorted(s, e) ==
    IF s = <<>> THEN <<e>>
    ELSE IF EventLess(e, Head(s)) THEN <<e>> \o s
         ELSE <<Head(s)>> \o InsertSorted(Tail(s), e)

\* events.sort_by(..): a stable sort.
RECURSIVE SortEvents(_)
SortEvents(s) ==
    IF s = <<>> THEN <<>>
    ELSE InsertSorted(SortEvents(SubSeq(s, 1, Len(s) - 1)), s[Len(s)])

\* A walk that opens a whole register only past the end of the current one.
OpensWholePastEnd(cur, ev) == ev.shift > cur.shift + cur.width

\* regfile.rs:93-94: the descriptor opens a new whole register.
OpensWhole(cur, ev) == ev.shift >= cur.shift + cur.width

\* A walk without the assertion.
AssertNothing(cur, ev) == TRUE

\* regfile.rs:102-103: the assertion on a descriptor inside the current whole.
AssertInside(cur, ev) == ev.width + ev.shift <= cur.shift + cur.width

\* regfile.rs:106: the sub-register recorded for ev; n is whole.len().
RecordedSub(n, cur, ev) == SubRegister(n - 1, ev.shift - cur.shift, ev.width)

\* The state of the walk of regfile.rs:88-109.
WalkInit == [current |-> SubRegister(0, 0, 0), whole |-> <<>>, names |-> <<>>,
             slices |-> <<>>, panic |-> FALSE]

\* regfile.rs:91-109: one iteration of the walk over the events.
WalkEvent(st, name, ev) ==
    IF st.panic THEN st
    ELSE IF OpensWhole(st.current, ev)
    THEN [current |-> ev,
          whole |-> Append(st.whole, ev.width),
          names |-> Append(st.names, name),
          slices |-> (name :> RecordedSub(Len(st.whole) + 1, ev, ev)) @@ st.slices,
          panic |-> FALSE]
    ELSE IF AssertInside(st.current, ev)
    THEN [st EXCEPT !.slices =
              (name :> RecordedSub(Len(st.whole), st.current, ev)) @@ st.slices]
    ELSE [st EXCEPT !.panic = TRUE]

\* regfile.rs:121-123
get_subregister(sl, name) == IF name \in DOMAIN sl THEN sl[name] ELSE "None"

-----------------------------------------------------------------------------
(* SubRegisterFile::new as a state machine: one step per loop iteration.    *)

RfInit ==
    /\ reg_info \in UNION {[1..n -> Descriptors] : n \in 0..MaxRegs}
    /\ events = <<>>
    /\ rf_pc = "new"
    /\ rf_i = 1
    /\ current = WalkInit.current
    /\ whole = <<>>
    /\ names = <<>>
    /\ slices = <<>>

RfIdle ==
    /\ reg_info = <<>>
    /\ events = <<>>
    /\ rf_pc = "idle"
    /\ rf_i = 1
    /\ current = WalkInit.current
    /\ whole = <<>>
    /\ names = <<>>
    /\ slices = <<>>

\* regfile.rs:65-88
NewCollect ==
    /\ rf_pc = "new"
    /\ events' = SortEvents(CollectEvents(reg_info, 1))
    /\ rf_pc' = "walk"
    /\ UNCHANGED <<reg_info, rf_i, current, whole, names, slices>>
    /\ UNCHANGED <<pw_vars, lf_vars, aux_vars>>

WalkState == [current |-> current, whole |-> whole, names |-> names,
              slices |-> slices, panic |-> FALSE]

\* regfile.rs:91-109
NewWalk ==
    /\ rf_pc = "walk"
    /\ rf_i <= Len(events)
    /\ LET ev == events[rf_i]
           st == WalkEvent(WalkState, RegName(ev.base), ev)
       IN /\ current' = st.current
          /\ whole' = st.whole
          /\ names' = st.names
          /\ slices' = st.slices
          /\ rf_pc' = IF st.panic THEN "panic" ELSE "walk"
          /\ rf_i' = IF st.panic THEN rf_i ELSE rf_i + 1
    /\ UNCHANGED <<reg_info, events>>
    /\ UNCHANGED <<pw_vars, lf_vars, aux_vars>>

\* regfile.rs:111-117
NewReturn ==
    /\ rf_pc = "walk"
    /\ rf_i > Len(events)
    /\ rf_pc' = "done"
    /\ UNCHANGED <<reg_info, events, rf_i, current, whole, names, slices>>
    /\ UNCHANGED <<pw_vars, lf_vars, aux_vars>>

RfNext == NewCollect \/ NewWalk \/ NewReturn

-----------------------------------------------------------------------------
(* Values of SSA nodes and the opcodes the register code emits.             *)

Pow2(n) == 2 ^ n

RECURSIVE BitAnd(_, _)
BitAnd(a, b) ==
    IF a = 0 \/ b = 0 THEN 0
    ELSE (a % 2) * (b % 2) + 2 * BitAnd(a \div 2, b \div 2)

RECURSIVE BitOr(_, _)
BitOr(a, b) ==
    IF a = 0 THEN b
    ELSE IF b = 0 THEN a
    ELSE (IF a % 2 = 1 \/ b % 2 = 1 THEN 1 ELSE 0) + 2 * BitOr(a \div 2, b \div 2)

RECURSIVE BitXor(_, _)
BitXor(a, b) ==
    IF a = 0 THEN b
    ELSE IF b = 0 THEN a
    ELSE ((a + b) % 2) + 2 * BitXor(a \div 2, b \div 2)

\* u64 arithmetic of regfile.rs:230-231, at the word width explored.
WordNot(x) == Pow2(WordBits) - 1 - x
WordShl(x, n) == (x * Pow2(n)) % Pow2(WordBits)

\* MOpcode: the value of an operation node of result width w.
OpWiden(w, x) == x
OpNarrow(w, x) == x % Pow2(w)
OpLsl(w, x, n) == (x * Pow2(n)) % Pow2(w)
OpLsr(w, x, n) == x \div Pow2(n)
OpAnd(w, x, y) == BitAnd(x, y)
OpOr(w, x, y) == BitOr(x, y)

\* regfile.rs:230
FullVal(width) == WordNot(WordShl(WordNot(1), width - 1))

\* regfile.rs:231
MaskVal(info, width) ==
    BitXor(WordShl(WordNot(WordShl(WordNot(1), info.width - 1)), info.shift),
           FullVal(width))

\* regfile.rs:185-250: the value write_register makes the definition of the
\* whole register of width `width`, whose definition was `ov`, on a write
\* of `value` ([val, width]) to the register `info`.
WriteRegister(info, width, ov, value) ==
    IF info.width >= width THEN value.val
    ELSE LET widened == IF value.width < width THEN OpWiden(width, value.val)
                        ELSE value.val
             shifted == IF info.shift > 0 THEN OpLsl(width, widened, info.shift)
                        ELSE widened
             maskval == MaskVal(info, width)
         IN IF maskval = 0 THEN shifted
            ELSE OpOr(width, shifted, OpAnd(width, ov, maskval))

\* A read that leaves out the shift.
ReadRegisterNoShift(info, width, def) ==
    IF info.width < width THEN def % (2 ^ info.width) ELSE def

\* regfile.rs:267-304: the value read_register returns for the register
\* `info` of the whole register of width `width` whose definition is `def`.
ReadRegister(info, width, def) ==
    LET shifted == IF info.shift > 0 THEN OpLsr(width, def, info.shift) ELSE def
    IN IF info.width < width THEN OpNarrow(info.width, shifted) ELSE shifted

-----------------------------------------------------------------------------
(* One write_register followed by one read_register of the same register.  *)

PwInit ==
    /\ pw_width \in 1..WordBits
    /\ pw_info \in {SubRegister(0, s, w) : s \in 0..WordBits, w \in 1..WordBits}
    /\ pw_info.shift + pw_info.width <= pw_width
    /\ pw_old \in 0..(Pow2(pw_width) - 1)
    /\ pw_value \in [val : 0..(Pow2(WordBits) - 1), width : 1..WordBits]
    /\ pw_value.width <= pw_width
    /\ pw_value.val < Pow2(pw_value.width)
    /\ pw_def = pw_old
    /\ pw_read = 0
    /\ pw_pc = "start"

PwIdle ==
    /\ pw_width = 1
    /\ pw_info = SubRegister(0, 0, 1)
    /\ pw_old = 0
    /\ pw_value = [val |-> 0, width |-> 1]
    /\ pw_def = 0
    /\ pw_read = 0
    /\ pw_pc = "idle"

PwWrite ==
    /\ pw_pc = "start"
    /\ pw_def' = WriteRegister(pw_info, pw_width, pw_def, pw_value)
    /\ pw_pc' = "written"
    /\ UNCHANGED <<pw_width, pw_info, pw_old, pw_value, pw_read>>
    /\ UNCHANGED <<rf_vars, lf_vars, aux_vars>>

PwRead ==
    /\ pw_pc = "written"
    /\ pw_read' = ReadRegister(pw_info, pw_width, pw_def)
    /\ pw_pc' = "read"
    /\ UNCHANGED <<pw_width, pw_info, pw_old, pw_value, pw_def>>
    /\ UNCHANGED <<rf_vars, lf_vars, aux_vars>>

PwNext == PwWrite \/ PwRead

-----------------------------------------------------------------------------
(* frontend/ssaconstructor.rs: the lifter, with the PhiPlacer and the SSA   *)
(* graph it drives.                                                         *)

\* ssaconstructor.rs:31-33
FALSE_EDGE == 0
TRUE_EDGE == 1
UNCOND_EDGE == 2
NoEdge == -1

\* The register profile the lifter is run with: a whole register of the word
\* width, a narrower register at its offset 0, and the program counter.
Profile ==
    << [offset |-> 0, size |-> WordBits, type_str |-> "gpr", flags |-> FALSE],
       [offset |-> 0, size |-> WordBits - 1, type_str |-> "gpr", flags |-> FALSE],
       [offset |-> WordBits, size |-> WordBits, type_str |-> "gpr", flags |-> FALSE] >>
ProfileNames == <<"rax", "eax", "rip">>

\* ssaconstructor.rs:77-83: alias_info, register name -> role.
alias_info == [n \in {"rip"} |-> "PC"]

\* regfile.rs:59-118 on the profile.
RECURSIVE WalkAll(_, _, _)
WalkAll(st, evs, i) ==
    IF i > Len(evs) THEN st
    ELSE WalkAll(WalkEvent(st, ProfileNames[evs[i].base], evs[i]), evs, i + 1)

\* ssaconstructor.rs:63: SubRegisterFile::new(reg_info)
regfile == WalkAll(WalkInit, SortEvents(CollectEvents(Profile, 1)), 1)

\* The number of whole registers; ssaconstructor.rs:390-391: the id of "mem".
NumWhole == Len(regfile.whole)
MemId == NumWhole

\* middle/ir.rs MAddress: (address, offset), ordered lexicographically.
MAddress(a, o) == [address |-> a, offset |-> o]
AddrLeq(x, y) == x.address < y.address \/ (x.address = y.address /\ x.offset <= y.offset)
NoAddress == MAddress(-1, 0)

\* The instruction addresses and jump targets explored.
MaxAddr == 2
Addrs == 0..MaxAddr
\* The number of instructions of op_info and of tokens explored in one run.
MaxOps == 3
MaxToks == 2

\* ssaconstructor.rs:376
StartAddress == MAddress(0, 0)
\* ssaconstructor.rs:497: the address of the exit node (0xffffffff in the
\* source): above every address explored.
ExitOffset == MaxAddr + 1
ExitAddress == MAddress(ExitOffset, 0)

\* Tokens handed to process_in: [t, name, v]; t = "None" is Option::None.
Tok(t, name, v) == [t |-> t, name |-> name, v |-> v]
NoTok == Tok("None", "", 0)
EIdentifier(name) == Tok("EIdentifier", name, 0)
ERegister(name) == Tok("ERegister", name, 0)
EConstant(v) == Tok("EConstant", "", v)
EEntry(id) == Tok("EEntry", "", id)

\* A node of the SSA graph. args is the list of op_use calls on the node:
\* <<index, operand>>.
MkNode(kind, opcode, width, addr, label, info) ==
    [kind |-> kind, opcode |-> opcode, width |-> width, addr |-> addr,
     label |-> label, info |-> info, args |-> <<>>]

\* The state the lifter works on: the SSA graph (nodes, blocks, edges), the
\* PhiPlacer (defs, incomplete, sealed) and SSAConstruct's own fields.
\* Operators below take such a record and return the record after the call,
\* with the call's result in field val.

AddNode(L, node) == [L EXCEPT !.nodes = Append(@, node), !.val = Len(L.nodes) + 1]

\* PhiPlacer::op_use
op_use(L, n, idx, arg) == [L EXCEPT !.nodes[n].args = Append(@, <<idx, arg>>)]

\* PhiPlacer::add_op
add_op(L, opcode, addr, width, info) ==
    AddNode(L, MkNode("Op", opcode, width, addr, "", info))

\* PhiPlacer::add_comment
add_comment(L, addr, width, label, info) ==
    AddNode(L, MkNode("Comment", "", width, addr, label, info))

\* PhiPlacer::add_const: a new Const node of the word width.
add_const(L, value) ==
    AddNode(L, MkNode("Op", "OpConst", WordBits, NoAddress, "", <<value>>))

\* PhiPlacer::operand_width
operand_width(L, n) == L.nodes[n].width

\* PhiPlacer::block_of: the block an address lies in is the last block that
\* starts at or before it.
block_of(blks, addr) ==
    CHOOSE b \in blks : AddrLeq(b, addr) /\ \A c \in blks : AddrLeq(c, addr) => AddrLeq(c, b)

ControlEdge(src, dst, tag) == [src |-> src, dst |-> dst, tag |-> tag]

\* PhiPlacer::add_block(at, current_addr, edge_type): the block at `at` is
\* created on the first reference to the address; with an edge type, a
\* control edge from the block of current_addr to it is added.
add_block(L, at, current_addr, edge_type) ==
    LET blks == L.blocks \cup {at}
    IN [L EXCEPT !.blocks = blks,
                 !.edges = IF edge_type = NoEdge THEN @
                           ELSE Append(@, ControlEdge(block_of(blks, current_addr), at,
                                                      edge_type))]

\* PhiPlacer::add_edge
add_edge(L, source, target, tag) ==
    [L EXCEPT !.edges = Append(@, ControlEdge(block_of(L.blocks, source),
                                              block_of(L.blocks, target), tag))]

\* PhiPlacer::maybe_add_edge: no-op when both addresses share a block.
maybe_add_edge(L, source, target) ==
    IF block_of(L.blocks, source) = block_of(L.blocks, target) THEN L
    ELSE add_edge(L, source, target, UNCOND_EDGE)

\* PhiPlacer::write_variable: def(v, b) := node.
write_variable(L, addr, var, node) ==
    [L EXCEPT !.defs = (<<block_of(L.blocks, addr), var>> :> node) @@ @]

\* The width of variable `var`: a whole register, or "mem" (width 0).
VarWidth(var) == IF var = MemId THEN 0 ELSE regfile.whole[var + 1]

\* `v` is evaluated once and handed to F: the sequencing of statements.
Bind(v, F(_)) == CHOOSE r \in {F(x) : x \in {v}} : TRUE

\* PhiPlacer::read_variable in a block that is not sealed: the definition
\* of the block, or else a new phi of the block, recorded as incomplete.
read_variable(L, addr, var) ==
    LET b == block_of(L.blocks, addr)
    IN IF <<b, var>> \in DOMAIN L.defs THEN [L EXCEPT !.val = L.defs[<<b, var>>]]
       ELSE Bind(AddNode(L, MkNode("Phi", "", VarWidth(var), b, "", <<var>>)),
                 LAMBDA L1 : [L1 EXCEPT !.defs = (<<b, var>> :> L1.val) @@ @,
                                        !.incomplete = @ \cup {<<b, var, L1.val>>}])

\* Emits `opcode` of `width` at addr with operands 0: a, 1: Const(c).
OpWithConst(L, opcode, addr, width, a, c) ==
    Bind(add_const(L, c), LAMBDA Lc :
    Bind(add_op(Lc, opcode, addr, width, <<>>), LAMBDA Lo :
         op_use(op_use(Lo, Lo.val, 0, a), Lo.val, 1, Lc.val)))

\* Emits the cast `opcode` to `width` at addr of the value a.
Cast(L, opcode, addr, width, a) ==
    Bind(add_op(L, opcode, addr, width, <<width>>), LAMBDA Lw : op_use(Lw, Lw.val, 0, a))

\* regfile.rs:267-304 on nodes: read_register(address, var)
read_register(L, addr, var) ==
    LET info == regfile.slices[var]
        width == regfile.whole[info.base + 1]
    IN Bind(read_variable(L, addr, info.base), LAMBDA L1 :
       Bind(IF info.shift > 0 THEN OpWithConst(L1, "OpLsr", addr, width, L1.val, info.shift)
            ELSE L1, LAMBDA L2 :
            IF info.width < width THEN Cast(L2, "OpNarrow", addr, info.width, L2.val)
            ELSE L2))

\* regfile.rs:185-250 on nodes: write_register(address, var, value)
write_register(L, addr, var, value) ==
    LET info == regfile.slices[var]
        id == info.base
        width == regfile.whole[id + 1]
        maskval == MaskVal(info, width)
    IN IF info.width >= width THEN write_variable(L, addr, id, value)
       ELSE
       Bind(IF operand_width(L, value) < width THEN Cast(L, "OpWiden", addr, width, value)
            ELSE [L EXCEPT !.val = value], LAMBDA L1 :
       Bind(IF info.shift > 0 THEN OpWithConst(L1, "OpLsl", addr, width, L1.val, info.shift)
            ELSE L1, LAMBDA L2 :
            IF maskval = 0 THEN write_variable(L2, addr, id, L2.val)
            ELSE Bind(read_variable(L2, addr, id), LAMBDA L3 :
                 Bind(OpWithConst(L3, "OpAnd", addr, width, L3.val, maskval), LAMBDA L6 :
                 Bind(add_op(L6, "OpOr", addr, width, <<>>), LAMBDA L7 :
                      write_variable(op_use(op_use(L7, L7.val, 0, L2.val), L7.val, 1, L6.val),
                                     addr, id, L7.val))))))

-----------------------------------------------------------------------------
(* SSAConstruct::process_in, process_op                                     *)

Max(a, b) == IF a >= b THEN a ELSE b

\* ssaconstructor.rs:117-146. val = 0 is None.
process_in(L, var, address) ==
    IF var.t = "None" THEN [L EXCEPT !.val = 0]
    ELSE IF var.t \in {"ERegister", "EIdentifier"} THEN read_register(L, address, var.name)
    ELSE IF var.t = "EEntry" THEN [L EXCEPT !.val = L.intermediates[var.v + 1]]
    ELSE IF var.t \in {"EConstant", "EAddress"}
    THEN LET value == IF var.t = "EConstant" THEN var.v ELSE address.address
         \* or_insert(add_const(value)): the argument is evaluated first
         IN Bind(add_const(L, value), LAMBDA Lc :
                 IF value \in DOMAIN L.constants THEN [Lc EXCEPT !.val = L.constants[value]]
                 ELSE [Lc EXCEPT !.constants = (value :> Lc.val) @@ @])
    ELSE [L EXCEPT !.panic = TRUE]

\* The tokens of the common path of process_op that take two operands.
BinaryTokens == {"ECmp", "ELt", "EGt", "EAdd", "ESub", "EMul", "EDiv", "EMod",
                 "EAnd", "EOr", "EXor", "ELsl", "ELsr"}
CommonTokens == BinaryTokens \cup {"ENeg"}

\* ssaconstructor.rs:187-298: the opcode of a token of the common path.
Opcode(tok) ==
    CASE tok = "ECmp" -> "OpSub"
      [] tok = "ELt" -> "OpLt"
      [] tok = "EGt" -> "OpGt"
      [] tok = "ELsl" -> "OpLsl"
      [] tok = "ELsr" -> "OpLsr"
      [] tok = "EAnd" -> "OpAnd"
      [] tok = "EOr" -> "OpOr"
      [] tok = "ENeg" -> "OpNot"
      [] tok = "EMul" -> "OpMul"
      [] tok = "EXor" -> "OpXor"
      [] tok = "EAdd" -> "OpAdd"
      [] tok = "ESub" -> "OpSub"
      [] tok = "EDiv" -> "OpDiv"
      [] tok = "EMod" -> "OpMod"

\* ssaconstructor.rs:187-298: the result width of a token of the common path.
ResultWidth(tok, result_size) == IF tok \in {"ELt", "EGt"} THEN 1 ELSE result_size

\* ssaconstructor.rs:199-233: Token::EEq
process_eq(L, address, ops, lhsv, rhsv) ==
    IF ops[1].t = "EIdentifier"
    THEN IF ops[1].name \in DOMAIN alias_info /\ alias_info[ops[1].name] = "PC"
         THEN IF ops[2].t = "EConstant"
              THEN [add_block(L, MAddress(ops[2].v, 0), address, UNCOND_EDGE)
                       EXCEPT !.needs_new_block = TRUE, !.val = 0]
              ELSE [L EXCEPT !.val = 0]
         ELSE IF rhsv = 0 THEN [L EXCEPT !.panic = TRUE]
              ELSE [write_register(L, address, ops[1].name, rhsv) EXCEPT !.val = 0]
    ELSE Bind(add_op(L, "OpStore", address, 0, <<>>), LAMBDA Ls :
              IF lhsv = 0 THEN [Ls EXCEPT !.panic = TRUE]
              ELSE IF rhsv = 0 THEN [op_use(Ls, Ls.val, 0, lhsv) EXCEPT !.panic = TRUE]
              ELSE [op_use(op_use(Ls, Ls.val, 0, lhsv), Ls.val, 1, rhsv) EXCEPT !.val = 0])

\* ssaconstructor.rs:235-255: Token::EIf
process_if(L, address, lhsv) ==
    LET true_address == MAddress(address.address, address.offset + 1)
    IN Bind(add_op(L, "OpITE", address, 1, <<>>), LAMBDA Li :
       Bind([Li EXCEPT !.nesting = Append(@, <<Li.val, address>>)], LAMBDA Ln :
       Bind(add_block(Ln, true_address, address, TRUE_EDGE), LAMBDA Lb :
       Bind(add_comment(Lb, address, 0, "T", <<true_address.address, true_address.offset>>),
            LAMBDA Lc :
            IF lhsv = 0 THEN [Lc EXCEPT !.panic = TRUE]
            ELSE [op_use(op_use(Lc, Li.val, 0, lhsv), Li.val, 1, Lc.val) EXCEPT !.val = 0]))))

\* A Poke whose Store is not made the definition of memory.
process_poke_unversioned(L, address, lhsv, rhsv) ==
    Bind(read_variable(L, address, MemId), LAMBDA Lm :
    Bind(add_op(Lm, "OpStore", address, 0, <<>>), LAMBDA Ls :
         IF lhsv = 0 \/ rhsv = 0 THEN [Ls EXCEPT !.panic = TRUE]
         ELSE [op_use(op_use(op_use(Ls, Ls.val, 0, Lm.val), Ls.val, 1, lhsv), Ls.val, 2, rhsv)
                  EXCEPT !.val = 0]))

\* ssaconstructor.rs:295-307: Token::EPoke
process_poke(L, address, lhsv, rhsv) ==
    Bind(read_variable(L, address, MemId), LAMBDA Lm :
    Bind(add_op(Lm, "OpStore", address, 0, <<>>), LAMBDA Ls :
         IF lhsv = 0 THEN [op_use(Ls, Ls.val, 0, Lm.val) EXCEPT !.panic = TRUE]
         ELSE IF rhsv = 0
         THEN [op_use(op_use(Ls, Ls.val, 0, Lm.val), Ls.val, 1, lhsv) EXCEPT !.panic = TRUE]
         ELSE [write_variable(
                  op_use(op_use(op_use(Ls, Ls.val, 0, Lm.val), Ls.val, 1, lhsv), Ls.val, 2, rhsv),
                  address, MemId, Ls.val) EXCEPT !.val = 0]))

\* ssaconstructor.rs:308-316: Token::EPeek
process_peek(L, address, n, lhsv) ==
    Bind(read_variable(L, address, MemId), LAMBDA Lm :
    Bind(add_op(Lm, "OpLoad", address, n, <<>>), LAMBDA Ll :
         IF lhsv = 0 THEN [op_use(Ll, Ll.val, 0, Lm.val) EXCEPT !.panic = TRUE]
         ELSE op_use(op_use(Ll, Ll.val, 0, Lm.val), Ll.val, 1, lhsv)))

\* The operand that is cast: the narrower of the two.
WidenNone(lhs_size, rhs_size) == "none"
WidenNarrower(lhs_size, rhs_size) ==
    IF lhs_size > rhs_size THEN "rhs" ELSE IF lhs_size < rhs_size THEN "lhs" ELSE "none"

\* ssaconstructor.rs:339-369: the common path: the widen cast, the operation.
process_common(L, tok, address, lhsv, rhsv) ==
    LET lhs_size == IF lhsv = 0 THEN 0 ELSE operand_width(L, lhsv)
        rhs_size == IF rhsv = 0 THEN 0 ELSE operand_width(L, rhsv)
        result_size == Max(lhs_size, rhs_size)
        op == Opcode(tok)
        vt == ResultWidth(tok, result_size)
    IN IF lhsv = 0
       \* lhs.expect(..) fails: after the Widen node made for it (349-353),
       \* or after the node of the operation when there is no rhs (366-367)
       THEN IF rhsv = 0 THEN [add_op(L, op, address, vt, <<>>) EXCEPT !.panic = TRUE]
            ELSE IF rhs_size > 0
            THEN [add_op(L, "OpWiden", address, rhs_size, <<rhs_size>>) EXCEPT !.panic = TRUE]
            ELSE [L EXCEPT !.panic = TRUE]
       ELSE IF rhsv # 0
       THEN LET cast == WidenNarrower(lhs_size, rhs_size)
            IN Bind(IF cast = "rhs" THEN Cast(L, "OpWiden", address, lhs_size, rhsv)
                    ELSE IF cast = "lhs" THEN Cast(L, "OpWiden", address, rhs_size, lhsv)
                    ELSE L, LAMBDA Lw :
               Bind(add_op(Lw, op, address, vt, <<>>), LAMBDA Lo :
                    op_use(op_use(Lo, Lo.val, 0, IF cast = "lhs" THEN Lw.val ELSE lhsv),
                           Lo.val, 1, IF cast = "rhs" THEN Lw.val ELSE rhsv)))
       ELSE Bind(add_op(L, op, address, vt, <<>>), LAMBDA Lo : op_use(Lo, Lo.val, 0, lhsv))

\* The token is passed over: no node, no result.
skip_token(L) == [L EXCEPT !.val = 0]
\* ssaconstructor.rs:262-267, 317-336: unimplemented!(), unreachable!()
unimplemented(L) == [L EXCEPT !.panic = TRUE]

\* ssaconstructor.rs:167-370: process_op(token, address, operands). The
\* result has val = the node returned (0 is None), and lhs, rhs as resolved.
process_op(L, tok, address, ops) ==
    Bind(process_in(L, ops[1], address), LAMBDA L1 :
    Bind(IF L1.panic THEN L1 ELSE process_in(L1, ops[2], address), LAMBDA L2 :
    Bind(IF L2.panic THEN L2
         ELSE IF tok.t = "EEq" THEN process_eq(L2, address, ops, L1.val, L2.val)
         ELSE IF tok.t = "EIf" THEN process_if(L2, address, L1.val)
         ELSE IF tok.t = "EPoke" THEN process_poke(L2, address, L1.val, L2.val)
         ELSE IF tok.t = "EPeek" THEN process_peek(L2, address, tok.v, L1.val)
         ELSE IF tok.t \in {"EEndIf", "ENop"} THEN [L2 EXCEPT !.val = 0]
         ELSE IF tok.t \in CommonTokens
              THEN process_common(L2, tok.t, address, L1.val, L2.val)
         ELSE unimplemented(L2), LAMBDA L3 :
         [L3 EXCEPT !.lhs = L1.val, !.rhs = L2.val])))

-----------------------------------------------------------------------------
(* SSAConstruct::run as a state machine                                     *)

\* The lifter and phi placer state as one record, for the operators above.
LState ==
    [nodes |-> nodes, blocks |-> blocks, edges |-> edges, defs |-> defs,
     incomplete |-> incomplete, sealed |-> sealed, intermediates |-> intermediates,
     constants |-> constants, nesting |-> nesting, needs_new_block |-> needs_new_block,
     val |-> 0, lhs |-> 0, rhs |-> 0, panic |-> FALSE]

\* ssaconstructor.rs:62-97: SSAConstruct::new
EmptyState ==
    [nodes |-> <<>>, blocks |-> {}, edges |-> <<>>, defs |-> <<>>,
     incomplete |-> {}, sealed |-> {}, intermediates |-> <<>>,
     constants |-> <<>>, nesting |-> <<>>, needs_new_block |-> TRUE,
     val |-> 0, lhs |-> 0, rhs |-> 0, panic |-> FALSE]

Commit(L) ==
    /\ nodes' = L.nodes
    /\ blocks' = L.blocks
    /\ edges' = L.edges
    /\ defs' = L.defs
    /\ incomplete' = L.incomplete
    /\ sealed' = L.sealed
    /\ intermediates' = L.intermediates
    /\ constants' = L.constants
    /\ nesting' = L.nesting
    /\ needs_new_block' = L.needs_new_block

NoCall == [i \in 0..(NumWhole - 1) |-> [node |-> 0, block |-> NoAddress]]

LfNew ==
    /\ nodes = EmptyState.nodes
    /\ blocks = EmptyState.blocks
    /\ edges = EmptyState.edges
    /\ defs = EmptyState.defs
    /\ incomplete = EmptyState.incomplete
    /\ sealed = EmptyState.sealed
    /\ intermediates = EmptyState.intermediates
    /\ constants = EmptyState.constants
    /\ nesting = EmptyState.nesting
    /\ needs_new_block = EmptyState.needs_new_block
    /\ current_address = StartAddress
    /\ lf_pc = "new"
    /\ n_ops = 0
    /\ n_toks = 0
    /\ token = NoTok
    /\ operands = <<NoTok, NoTok>>
    /\ lhs = 0
    /\ rhs = 0
    /\ call_def = NoCall

\* ssaconstructor.rs:381-386: one Comment per whole register, written as the
\* definition of the register in the start block.
RECURSIVE InitRegisters(_, _)
InitRegisters(L, i) ==
    IF i >= NumWhole THEN L
    ELSE Bind(add_comment(L, StartAddress, regfile.whole[i + 1], regfile.names[i + 1], <<>>),
              LAMBDA Lc :
         Bind(write_variable(Lc, StartAddress, i, Lc.val), LAMBDA Lw :
              InitRegisters(Lw, i + 1)))

\* PhiPlacer::add_dynamic: the exit node, registered as the block of the
\* address that run() targets at the end of the stream.
add_dynamic(L) == [L EXCEPT !.blocks = @ \cup {ExitAddress}]

\* ssaconstructor.rs:372-402
init_blocks(L) ==
    Bind(add_block(L, StartAddress, NoAddress, NoEdge), LAMBDA Ls :
    Bind(InitRegisters(Ls, 0), LAMBDA Lr :
    Bind(add_comment(Lr, StartAddress, 0, "mem", <<>>), LAMBDA Lm :
         add_dynamic(write_variable(Lm, StartAddress, MemId, Lm.val)))))

\* ssaconstructor.rs:411-413
RunStart ==
    /\ lf_pc = "new"
    /\ \E L \in {init_blocks(LState)} : Commit(L)
    /\ current_address' = MAddress(0, 0)
    /\ lf_pc' = "ops"
    /\ UNCHANGED <<n_ops, n_toks, token, operands, lhs, rhs, call_def>>
    /\ UNCHANGED <<rf_vars, pw_vars, aux_vars>>

\* ssaconstructor.rs:415-417: an instruction without an ESIL string
SkipOp ==
    /\ lf_pc \in {"ops", "tokens"}
    /\ n_ops < MaxOps
    /\ n_ops' = n_ops + 1
    /\ lf_pc' = "ops"
    /\ UNCHANGED <<nodes, blocks, edges, defs, incomplete, sealed, intermediates, constants,
                   nesting, needs_new_block, current_address, n_toks, token, operands,
                   lhs, rhs, call_def>>
    /\ UNCHANGED <<rf_vars, pw_vars, aux_vars>>

\* A loop head that leaves the pending conditionals on the stack.
LeaveNesting(L, cur) == L

\* ssaconstructor.rs:445-453: the pending false edges, last pushed first
RECURSIVE PopNesting(_, _)
PopNesting(L, cur) ==
    IF L.nesting = <<>> THEN L
    ELSE LET node == L.nesting[Len(L.nesting)]
         IN Bind([L EXCEPT !.nesting = SubSeq(@, 1, Len(@) - 1)], LAMBDA Lp :
            Bind(add_comment(Lp, node[2], 0, "F", <<cur.address, cur.offset>>), LAMBDA Lc :
            Bind(op_use(add_block(Lc, cur, node[2], FALSE_EDGE), node[1], 2, Lc.val),
                 LAMBDA Lu : PopNesting(Lu, cur))))

\* ssaconstructor.rs:429-453: the head of the loop body of run()
BeginInstruction(L, cur, offset) ==
    LET next_address == MAddress(offset, 0)
    IN Bind(IF L.needs_new_block
            THEN Bind([L EXCEPT !.needs_new_block = FALSE], LAMBDA Ln :
                      add_block(Ln, next_address, NoAddress, NoEdge))
            ELSE L, LAMBDA L1 :
       Bind(maybe_add_edge(L1, [cur EXCEPT !.offset = 0], next_address), LAMBDA L2 :
            PopNesting(L2, next_address)))

\* ssaconstructor.rs:472, 477: `(i + 1) as u8`, `i as u8`
U8 == 256
CallReadSlotShared(i) == 1
CallReadSlot(i) == (i + 1) % U8

\* ssaconstructor.rs:470-478: the call reads and writes every whole register
RECURSIVE CallRegisters(_, _, _, _)
CallRegisters(L, addr, op_call, i) ==
    IF i >= NumWhole THEN L
    ELSE LET reg == regfile.names[i + 1]
         IN Bind(read_register(L, addr, reg), LAMBDA Lr :
            Bind(op_use(Lr, op_call, CallReadSlot(i), Lr.val), LAMBDA Lu :
            Bind(add_comment(Lu, addr, regfile.whole[i + 1], reg, <<addr.address, addr.offset>>),
                 LAMBDA Lc :
            Bind(write_register(Lc, addr, reg, Lc.val), LAMBDA Lw :
            Bind(op_use(Lw, Lc.val, i % U8, op_call), LAMBDA Ln :
                 CallRegisters(Ln, addr, op_call, i + 1))))))

\* A call that is also taken to write memory.
process_call_writes_memory(L, addr) ==
    Bind(add_comment(L, addr, 0, "opcode", <<>>), LAMBDA Lo :
    Bind(add_op(Lo, "OpCall", addr, 0, <<>>), LAMBDA Lc :
    Bind(CallRegisters(Lc, addr, Lc.val, 0), LAMBDA Lr :
         write_variable(
            op_use([Lr EXCEPT !.nodes[Lc.val].addr = MAddress(addr.address, addr.offset + 1)],
                   Lc.val, 0, Lo.val),
            addr, MemId, Lc.val))))

\* ssaconstructor.rs:459-483: an instruction of class call
process_call(L, addr) ==
    Bind(add_comment(L, addr, 0, "opcode", <<>>), LAMBDA Lo :
    Bind(add_op(Lo, "OpCall", addr, 0, <<>>), LAMBDA Lc :
    Bind(CallRegisters(Lc, addr, Lc.val, 0), LAMBDA Lr :
         \* ssaconstructor.rs:479-481: set_address, then the call's operand 0
         op_use([Lr EXCEPT !.nodes[Lc.val].addr = MAddress(addr.address, addr.offset + 1)],
                Lc.val, 0, Lo.val))))

\* ssaconstructor.rs:419-455, 486: an instruction with an ESIL string that is
\* not a call: the loop head, then the token loop is entered.
BeginEsil(offset) ==
    /\ lf_pc \in {"ops", "tokens"}
    /\ n_ops < MaxOps
    /\ \E L \in {BeginInstruction(LState, current_address, offset)} : Commit(L)
    /\ current_address' = MAddress(offset, 0)
    /\ n_ops' = n_ops + 1
    /\ lf_pc' = "tokens"
    /\ UNCHANGED <<n_toks, token, operands, lhs, rhs, call_def>>
    /\ UNCHANGED <<rf_vars, pw_vars, aux_vars>>

\* ssaconstructor.rs:419-484: an instruction of class call
BeginCall(offset) ==
    /\ lf_pc \in {"ops", "tokens"}
    /\ n_ops < MaxOps
    /\ \E Lb \in {BeginInstruction(LState, current_address, offset)} :
       \E L \in {process_call(Lb, MAddress(offset, 0))} :
          /\ Commit(L)
          /\ call_def' = [i \in 0..(NumWhole - 1) |->
                            [node |-> L.defs[<<block_of(L.blocks, MAddress(offset, 0)), i>>],
                             block |-> block_of(L.blocks, MAddress(offset, 0))]]
    /\ current_address' = MAddress(offset, 1)
    /\ n_ops' = n_ops + 1
    /\ lf_pc' = "ops"
    /\ UNCHANGED <<n_toks, token, operands, lhs, rhs>>
    /\ UNCHANGED <<rf_vars, pw_vars, aux_vars>>

\* The whole register an assignment token writes, if it writes one.
WrittenBy(tok, ops) ==
    IF tok.t = "EEq" /\ ops[1].t = "EIdentifier" /\ ops[1].name \notin DOMAIN alias_info
    THEN {regfile.slices[ops[1].name].base}
    ELSE {}

\* ssaconstructor.rs:486-495: one turn of the token loop; a panic of
\* process_in or process_op ends the run where it is raised: what was done
\* to the SSA before it stays done.
ProcessToken(tok, ops) ==
    /\ lf_pc = "tokens"
    /\ n_toks < MaxToks
    /\ n_toks' = n_toks + 1
    /\ token' = tok
    /\ operands' = ops
    /\ \E Ls \in {LState} : \E L \in {process_op(Ls, tok, current_address, ops)} :
          IF L.panic
          THEN /\ lf_pc' = "panic"
               /\ Commit(L)
               /\ lhs' = L.lhs
               /\ rhs' = L.rhs
               /\ UNCHANGED <<current_address, call_def>>
          ELSE /\ Commit(IF L.val # 0 THEN [L EXCEPT !.intermediates = Append(@, L.val)]
                         ELSE L)
               /\ lhs' = L.lhs
               /\ rhs' = L.rhs
               /\ current_address' = [current_address EXCEPT !.offset = @ + 1]
               /\ call_def' = [i \in 0..(NumWhole - 1) |->
                                 IF i \in WrittenBy(tok, ops) THEN NoCall[i] ELSE call_def[i]]
               /\ lf_pc' = "tokens"
    /\ UNCHANGED n_ops
    /\ UNCHANGED <<rf_vars, pw_vars, aux_vars>>

\* A finish that leaves the blocks as they are.
finish_nothing(L) == L

\* PhiPlacer::finish: seal_block for every block that is not sealed.  Sealing
\* a block takes its phis out of the incomplete set and marks it sealed; the
\* operands the phis receive are the subject of the placer model below.
finish(L) == [L EXCEPT !.sealed = L.blocks, !.incomplete = {}]

\* ssaconstructor.rs:497-498: the end of the stream
EndStream ==
    /\ lf_pc \in {"ops", "tokens"}
    /\ \E L \in {finish(add_edge(LState, current_address, ExitAddress, UNCOND_EDGE))} :
          Commit(L)
    /\ lf_pc' = "done"
    /\ UNCHANGED <<current_address, n_ops, n_toks, token, operands, lhs, rhs, call_def>>
    /\ UNCHANGED <<rf_vars, pw_vars, aux_vars>>

\* The operand tokens the parser hands over: registers by name, constants,
\* and the entry on top of the parser's stack.
TopEntry == IF intermediates = <<>> THEN {} ELSE {EEntry(Len(intermediates) - 1)}
RaxId == EIdentifier("rax")
EaxId == EIdentifier("eax")
RipId == EIdentifier("rip")

\* Control flow: conditionals, constant and computed jumps, a register write.
CfgIf == ProcessToken(Tok("EIf", "", 0), <<RaxId, NoTok>>)
CfgJump == \E t \in Addrs : ProcessToken(Tok("EEq", "", 0), <<RipId, EConstant(t)>>)
CfgNop == ProcessToken(Tok("ENop", "", 0), <<NoTok, NoTok>>)
\* op_info lists the instructions of a function in address order.
Ascending(offset) == n_ops = 0 \/ offset > current_address.address
CfgBegin == \E offset \in Addrs : Ascending(offset) /\ BeginEsil(offset)
CfgNext == RunStart \/ SkipOp \/ CfgBegin \/ CfgIf \/ CfgJump \/ CfgNop \/ EndStream

\* Widths: one instruction of binary operations on registers of two widths
\* and on earlier results.
WidthBegin == lf_pc = "ops" /\ BeginEsil(0)
WidthToken ==
    \E t \in BinaryTokens, l \in {RaxId, EaxId} \cup TopEntry, r \in {EaxId} \cup TopEntry :
        ProcessToken(Tok(t, "", 0), <<l, r>>)
WidthNext == RunStart \/ WidthBegin \/ WidthToken

\* Assignments: every form of left-hand side against constants and registers.
AssignBegin == \E offset \in Addrs : Ascending(offset) /\ BeginEsil(offset)
AssignToken ==
    \E l \in {RaxId, EaxId, RipId, ERegister("rax"), EConstant(1)},
       r \in {EConstant(t) : t \in Addrs} \cup {RaxId, NoTok} :
        ProcessToken(Tok("EEq", "", 0), <<l, r>>)
AssignNext == RunStart \/ AssignBegin \/ AssignToken

\* Calls: calls among instructions that read and write registers, branch
\* and jump.
CallBegin == \E offset \in Addrs : Ascending(offset) /\ BeginCall(offset)
CallEsil == \E offset \in Addrs : Ascending(offset) /\ BeginEsil(offset)
CallRead == ProcessToken(Tok("ECmp", "", 0), <<RaxId, RipId>>)
CallWrite == ProcessToken(Tok("EEq", "", 0), <<RaxId, EConstant(1)>>)
\* Tokens with no translation, among tokens that have one.
UnimplementedTokens == {"ERol", "ERor", "EGoto", "EBreak", "EPop", "ETodo"}
UnimplToken ==
    \E t \in UnimplementedTokens \cup {"EAdd"}, l \in {RaxId, EaxId, NoTok},
       r \in {EaxId, EConstant(1), NoTok} :
        ProcessToken(Tok(t, "", 0), <<l, r>>)
UnimplNext == RunStart \/ CfgBegin \/ UnimplToken \/ EndStream

\* Whole runs: control flow, and tokens that abort the run.
RunAbort == ProcessToken(Tok("EGoto", "", 0), <<NoTok, NoTok>>)
RunNext == RunStart \/ SkipOp \/ CfgBegin \/ CfgIf \/ CfgJump \/ RunAbort \/ EndStream

CallNext == RunStart \/ CallBegin \/ CallEsil \/ CallRead \/ CallWrite \/ CfgIf \/ CfgJump

\* Memory: stores and loads at constant and register addresses, among
\* conditionals and calls.
MemBegin == \E offset \in Addrs : Ascending(offset) /\ BeginEsil(offset)
MemCall == \E offset \in Addrs : Ascending(offset) /\ BeginCall(offset)
MemPoke ==
    \E l \in {RaxId, EConstant(0)}, r \in {RaxId, EConstant(1)} :
        ProcessToken(Tok("EPoke", "", WordBits), <<l, r>>)
MemPeek ==
    \E l \in {RaxId, EConstant(0)} \cup TopEntry :
        ProcessToken(Tok("EPeek", "", WordBits), <<l, NoTok>>)
MemNext == RunStart \/ MemBegin \/ MemCall \/ MemPoke \/ MemPeek \/ CfgIf

LfIdle ==
    /\ nodes = EmptyState.nodes
    /\ blocks = EmptyState.blocks
    /\ edges = EmptyState.edges
    /\ defs = EmptyState.defs
    /\ incomplete = EmptyState.incomplete
    /\ sealed = EmptyState.sealed
    /\ intermediates = EmptyState.intermediates
    /\ constants = EmptyState.constants
    /\ nesting = EmptyState.nesting
    /\ needs_new_block = EmptyState.needs_new_block
    /\ current_address = StartAddress
    /\ lf_pc = "idle"
    /\ n_ops = 0
    /\ n_toks = 0
    /\ token = NoTok
    /\ operands = <<NoTok, NoTok>>
    /\ lhs = 0
    /\ rhs = 0
    /\ call_def = NoCall

\* A component that is not run.
Idle == [pc |-> "idle"]
LwIdle == lw_st = Idle
MnIdle == mn_st = Idle
PpIdle == pp_st = Idle
DcIdle == dc_st = Idle
AuxIdle == LwIdle /\ MnIdle /\ PpIdle /\ DcIdle

InitRegfile == RfInit /\ PwIdle /\ LfIdle /\ AuxIdle

SpecRegfile == InitRegfile /\ [][RfNext]_vars

InitPartial == PwInit /\ RfIdle /\ LfIdle /\ AuxIdle

SpecPartial == InitPartial /\ [][PwNext]_vars

InitLift == LfNew /\ RfIdle /\ PwIdle /\ AuxIdle
SpecCfg == InitLift /\ [][CfgNext]_vars
SpecWidth == InitLift /\ [][WidthNext]_vars
SpecAssign == InitLift /\ [][AssignNext]_vars
SpecCall == InitLift /\ [][CallNext]_vars
SpecUnimpl == InitLift /\ [][UnimplNext]_vars
SpecMem == InitLift /\ [][MemNext]_vars
\* run() is one sequential loop over a finite stream: it takes its next step
\* whenever it has one.
SpecRunLive == InitLift /\ [][RunNext]_vars /\ WF_vars(RunNext)

-----------------------------------------------------------------------------
(* lower_simpleast (middle/ir_reader/lowering.rs): a simple AST becomes an  *)
(* SSAStorage. lower_function consumes the AST front to back; each action   *)
(* below is one iteration of one of its loops on the next piece of the AST. *)

\* The pieces of one AST (blocks, operations, jumps, entries of the final
\* register state) and the value references %1..%MaxRefs explored.
MaxPieces == 4
MaxRefs == 1

\* The register lists explored, by their length: register i of the list is
\* named i, and a name from the length upwards is not in the list.
RegisterLists == {0, U8 - 2, U8 - 1, U8}
PhysRegs(n) == {r \in {0, n - 1, n} : r >= 0}

\* lowering.rs:56, with the loose test of a variant kept for comparison.
TooManyRegistersPast(n) == n > U8
TooManyRegisters(n) == n >= U8 - 1

\* `x as u8`
AsU8(x) == x % U8

\* The LowerSsa value and the SSAStorage it fills. Node ids are positions in
\* nodes; data, contained, cedges and selector are the edges of the storage
\* in the order they were inserted. A data edge of an Op (indexed) keeps
\* next to the index the storage was given (idx) the index before its
\* conversion to u8 (exact); the data edge of a Phi has no index.
LowerSsa(n) ==
    [pc |-> "new", err |-> "", nregs |-> n, nodes |-> <<>>, data |-> <<>>,
     contained |-> <<>>, cedges |-> <<>>, selector |-> <<>>,
     blocks |-> <<>>, values |-> <<>>, entry |-> 0, exit |-> 0, final |-> 0,
     bb |-> 0, cur |-> NoAddress, n |-> 0, val |-> 0]

\* SSAStorage::insert_op, insert_phi, insert_const, insert_comment,
\* insert_block, insert_dynamic: a new node; val is its id.
insert_node(S, kind, opcode) ==
    [S EXCEPT !.nodes = Append(@, [kind |-> kind, opcode |-> opcode]),
              !.val = Len(S.nodes) + 1]

\* SSAStorage::op_use (indexed) and phi_use: one more data edge.
ssa_use(S, res, indexed, idx, exact, op) ==
    [S EXCEPT !.data = Append(@, [from |-> res, indexed |-> indexed, idx |-> idx,
                                  exact |-> exact, to |-> op])]

\* SSAStorage::insert_control_edge
insert_control_edge(S, src, dst, type) ==
    [S EXCEPT !.cedges = Append(@, [source |-> src, target |-> dst, type |-> type])]

\* lowering.rs:228-235. blocks maps an address to its block node.
block_at(S, at) ==
    IF \E i \in DOMAIN S.blocks : S.blocks[i].at = at
    THEN [S EXCEPT !.val =
            S.blocks[CHOOSE i \in DOMAIN S.blocks : S.blocks[i].at = at].node]
    ELSE Bind(insert_node(S, "BasicBlock", at), LAMBDA S1 :
             [S1 EXCEPT !.blocks = Append(@, [at |-> at, node |-> S1.val])])

\* lowering.rs:237-248
index_of_reg(S, sreg) ==
    IF sreg >= 0 /\ sreg < S.nregs
    THEN [S EXCEPT !.val = AsU8(sreg)]
    ELSE [S EXCEPT !.err = "no physical register"]

\* Operands of the AST.
SComment == [k |-> "Comment", r |-> 0]
SConst == [k |-> "Const", r |-> 0]
SValueRef(r) == [k |-> "ValueRef", r |-> r]
Operands == {SComment, SConst} \cup {SValueRef(r) : r \in 1..MaxRefs}

\* An operand lowering that keeps the first definition of a reference.
lower_operand_first(S, sop) ==
    CASE sop.k = "Comment" -> insert_node(S, "Comment", "")
      [] sop.k = "Const" -> insert_node(S, "Op", "OpConst")
      [] sop.k = "ValueRef" ->
            IF \E i \in DOMAIN S.values : S.values[i].vr = sop.r
            THEN [S EXCEPT !.val =
                    S.values[CHOOSE i \in DOMAIN S.values :
                                /\ S.values[i].vr = sop.r
                                /\ \A j \in DOMAIN S.values :
                                      S.values[j].vr = sop.r => i <= j].node]
            ELSE [S EXCEPT !.err = "no value reference"]

\* lowering.rs:207-226
lower_operand(S, sop) ==
    CASE sop.k = "Comment" -> insert_node(S, "Comment", "")
      [] sop.k = "Const" -> insert_node(S, "Op", "OpConst")
      [] sop.k = "ValueRef" ->
            IF \E i \in DOMAIN S.values : S.values[i].vr = sop.r
            THEN [S EXCEPT !.val =
                    S.values[CHOOSE i \in DOMAIN S.values :
                                /\ S.values[i].vr = sop.r
                                /\ \A j \in DOMAIN S.values :
                                      S.values[j].vr = sop.r => j <= i].node]
            ELSE [S EXCEPT !.err = "no value reference"]

\* HashMap::insert on values: the last entry of a reference is its value.
values_insert(S, vr, res) == [S EXCEPT !.values = Append(@, [vr |-> vr, node |-> res])]

\* The operand loops of lower_operation (lowering.rs:161-164, 183-186,
\* 197-201). A use is [k, formal, idx, sop]: of a phi (k = "phi"), of an
\* expression at index idx (k = "op"), or of a call argument (k = "arg") at
\* one more than the index of its formal register.
RECURSIVE lower_uses(_, _, _)
lower_uses(S, res, uses) ==
    IF uses = <<>> \/ S.err # "" THEN S
    ELSE Bind(IF Head(uses).k = "arg"
              THEN index_of_reg(S, Head(uses).formal)
              ELSE [S EXCEPT !.val = Head(uses).idx], LAMBDA S1 :
         IF S1.err # "" THEN S1
         ELSE Bind(lower_operand(S1, Head(uses).sop), LAMBDA S2 :
              IF S2.err # "" THEN S2
              ELSE lower_uses(
                     IF Head(uses).k = "arg"
                     THEN ssa_use(S2, res, TRUE, (S1.val + 1) % U8,
                                  Head(uses).formal + 1, S2.val)
                     ELSE ssa_use(S2, res, Head(uses).k = "op", S1.val,
                                  Head(uses).idx, S2.val),
                     res, Tail(uses))))

Reverse(s) == [i \in 1..Len(s) |-> s[Len(s) + 1 - i]]

\* lowering.rs:153-205. An operation of the AST is [k, vr, opcode, sops,
\* tgt, sargs, addr]; the result leaves the new node in val.
lower_operation(S, sopn) ==
    CASE sopn.k = "Phi" ->
            Bind(insert_node(S, "Phi", ""), LAMBDA S1 :
            Bind(lower_uses(S1, S1.val,
                    [i \in 1..Len(sopn.sops) |->
                        [k |-> "phi", formal |-> 0, idx |-> 0,
                         sop |-> Reverse(sopn.sops)[i]]]), LAMBDA S2 :
                IF S2.err # "" THEN S2
                ELSE [values_insert(S2, sopn.vr, S1.val) EXCEPT !.val = S1.val]))
      [] sopn.k = "Assign" ->
            Bind(insert_node(S, "Op", sopn.opcode), LAMBDA S1 :
            Bind(lower_uses(S1, S1.val,
                    [i \in 1..Len(sopn.sops) |->
                        [k |-> "op", formal |-> 0, idx |-> AsU8(i - 1),
                         sop |-> sopn.sops[i]]]), LAMBDA S2 :
                IF S2.err # "" THEN S2
                ELSE [values_insert(S2, sopn.vr, S1.val) EXCEPT !.val = S1.val]))
      [] sopn.k = "Call" ->
            Bind(insert_node(S, "Op", "OpCall"), LAMBDA S1 :
            Bind(lower_uses(S1, S1.val,
                    <<[k |-> "op", formal |-> 0, idx |-> 0, sop |-> sopn.tgt]>>
                    \o [i \in 1..Len(sopn.sargs) |->
                          [k |-> "arg", formal |-> sopn.sargs[i].formal,
                           idx |-> 0, sop |-> sopn.sargs[i].actual]]), LAMBDA S2 :
                IF S2.err # "" THEN S2 ELSE [S2 EXCEPT !.val = S1.val]))

\* A `?` that returned an error ends lower_function.
LwCommit(S) ==
    /\ lw_st' = IF S.err # "" THEN [S EXCEPT !.pc = "err"] ELSE S
    /\ UNCHANGED <<rf_vars, pw_vars, lf_vars, mn_st, pp_st, dc_st>>

LwNew == lw_st = [pc |-> "new"]

\* lowering.rs:54-67: the register list is taken, tested, and the exit node
\* (with its register state) and the entry block are inserted.
LwStart ==
    /\ lw_st.pc = "new"
    /\ \E n \in RegisterLists :
       \E S \in {IF TooManyRegisters(n)
                 THEN [LowerSsa(n) EXCEPT !.err = "too many registers"]
                 ELSE Bind(insert_node(LowerSsa(n), "DynamicAction", ""), LAMBDA S1 :
                      Bind(insert_node(S1, "RegisterState", ""), LAMBDA S2 :
                      Bind(insert_node(S2, "BasicBlock", MAddress(0, 0)), LAMBDA S3 :
                          [S3 EXCEPT !.exit = S1.val, !.final = S2.val,
                                     !.entry = S3.val, !.pc = "blocks"])))} :
          LwCommit(S)

LwAddrs == {MAddress(a, 0) : a \in 0..1}

\* lowering.rs:78-82 and 117: the first block of the function.
LwFirst ==
    /\ lw_st.pc = "blocks"
    /\ \E at \in LwAddrs :
       \E S \in {Bind(block_at(lw_st, at), LAMBDA S1 :
                    [insert_control_edge(S1, S1.entry, S1.val, UNCOND_EDGE)
                        EXCEPT !.bb = S1.val, !.cur = at, !.n = 1,
                               !.pc = "ops"])} :
          LwCommit(S)

\* lowering.rs:87-92: a function of no blocks.
LwNoBlocks ==
    /\ lw_st.pc = "blocks"
    /\ LwCommit([insert_control_edge(lw_st, lw_st.entry, lw_st.exit, UNCOND_EDGE)
                    EXCEPT !.pc = "final"])

\* The operations explored.
SPhi(vr, sops) ==
    [k |-> "Phi", vr |-> vr, opcode |-> "", sops |-> sops, tgt |-> SConst,
     sargs |-> <<>>, addr |-> NoAddress]
SAssign(addr, vr, opcode, sops) ==
    [k |-> "Assign", vr |-> vr, opcode |-> opcode, sops |-> sops,
     tgt |-> SConst, sargs |-> <<>>, addr |-> addr]
SCall(addr, tgt, sargs) ==
    [k |-> "Call", vr |-> 0, opcode |-> "OpCall", sops |-> <<>>, tgt |-> tgt,
     sargs |-> sargs, addr |-> addr]
Operations(n, cur) ==
    LET addrs == {NoAddress, MAddress(cur.address, 1)}
        refs == 1..MaxRefs
        regs == PhysRegs(n)
    IN  {SPhi(vr, <<a, SConst>>) : vr \in refs, a \in Operands}
        \cup {SAssign(NoAddress, vr, "OpNot", <<a>>) :
                vr \in refs, a \in Operands}
        \cup {SAssign(addr, vr, "OpStore", <<SConst, SValueRef(1), SConst>>) :
                addr \in addrs, vr \in refs}
        \cup {SCall(NoAddress, tgt, <<>>) : tgt \in {SConst, SValueRef(1)}}
        \cup {SCall(NoAddress, SConst, <<[formal |-> f, actual |-> SConst]>>) :
                f \in regs}
        \cup {SCall(NoAddress, SConst,
                    <<[formal |-> f, actual |-> SConst],
                      [formal |-> n - 1, actual |-> SValueRef(1)]>>) :
                f \in regs}

\* lowering.rs:119-123: one operation of the current block.
LwOp ==
    /\ lw_st.pc = "ops"
    /\ lw_st.n < MaxPieces
    /\ \E sopn \in Operations(lw_st.nregs, lw_st.cur) :
       \E S \in {Bind(lower_operation(lw_st, sopn), LAMBDA S1 :
                    IF S1.err # "" THEN S1
                    ELSE [S1 EXCEPT
                            !.contained = Append(@,
                                [node |-> S1.val, bb |-> S1.bb,
                                 addr |-> IF sopn.addr = NoAddress
                                          THEN S1.cur ELSE sopn.addr]),
                            !.n = @ + 1])} :
          LwCommit(S)

\* The jumps explored: [k, sel, tgt, else].
Jumps ==
    {[k |-> "None", sel |-> SConst, tgt |-> NoAddress, else |-> NoAddress]}
    \cup {[k |-> "Uncond", sel |-> SConst, tgt |-> t, else |-> NoAddress] :
            t \in LwAddrs}
    \cup {[k |-> "Cond", sel |-> SConst, tgt |-> t, else |-> e] :
            t \in LwAddrs, e \in {NoAddress, MAddress(1, 0)}}

\* lowering.rs:126-150, followed by 84-86 (next = NoAddress: the block was
\* the last) or by 73-77 and 117 (the block at next comes after it).
LwJump ==
    /\ lw_st.pc = "ops"
    /\ lw_st.n < MaxPieces
    /\ \E jump \in Jumps :
       \E next \in LwAddrs \cup {NoAddress} :
       \E S \in {Bind(IF next = NoAddress
                      THEN [lw_st EXCEPT !.val = lw_st.exit]
                      ELSE block_at(lw_st, next), LAMBDA N :
                 Bind(CASE jump.k = "Uncond" ->
                            Bind(block_at(N, jump.tgt), LAMBDA S1 :
                                insert_control_edge(S1, N.bb, S1.val, UNCOND_EDGE))
                        [] jump.k = "Cond" ->
                            Bind(lower_operand(N, jump.sel), LAMBDA S1 :
                            IF S1.err # "" THEN S1 ELSE
                            Bind(block_at(S1, jump.tgt), LAMBDA S2 :
                            Bind(IF jump.else = NoAddress
                                 THEN [S2 EXCEPT !.val = N.val]
                                 ELSE block_at(S2, jump.else), LAMBDA S3 :
                                insert_control_edge(
                                    insert_control_edge(
                                        [S3 EXCEPT !.selector = Append(@,
                                            [sel |-> S1.val, bb |-> N.bb])],
                                        N.bb, S2.val, TRUE_EDGE),
                                    N.bb, S3.val, FALSE_EDGE))))
                        [] jump.k = "None" ->
                            insert_control_edge(N, N.bb, N.val, UNCOND_EDGE),
                      LAMBDA J :
                        IF J.err # "" THEN J
                        ELSE IF next = NoAddress
                        THEN [J EXCEPT !.pc = "final", !.n = @ + 1]
                        ELSE [J EXCEPT !.bb = N.val, !.cur = next,
                                       !.n = @ + 1]))} :
          LwCommit(S)

\* lowering.rs:95-104: one entry of the final register state.
LwFinal ==
    /\ lw_st.pc = "final"
    /\ lw_st.n < MaxPieces
    /\ \E mem \in BOOLEAN :
       \E sreg \in IF mem THEN {lw_st.nregs} ELSE PhysRegs(lw_st.nregs) :
       \E sop \in {SConst, SValueRef(1)} :
       \E S \in {Bind(IF ~mem THEN index_of_reg(lw_st, sreg)
                      ELSE [lw_st EXCEPT !.val = AsU8(lw_st.nregs)], LAMBDA S1 :
                 IF S1.err # "" THEN S1 ELSE
                 Bind(lower_operand(S1, sop), LAMBDA S2 :
                 IF S2.err # "" THEN S2 ELSE
                 [ssa_use(S2, S2.final, TRUE, S1.val, sreg, S2.val)
                    EXCEPT !.n = @ + 1]))} :
          LwCommit(S)

\* lowering.rs:106-109
LwOk ==
    /\ lw_st.pc = "final"
    /\ LwCommit([lw_st EXCEPT !.pc = "ok"])

LwNext == LwStart \/ LwFirst \/ LwNoBlocks \/ LwOp \/ LwJump \/ LwFinal \/ LwOk

InitLower == LwNew /\ RfIdle /\ PwIdle /\ LfIdle /\ MnIdle /\ PpIdle /\ DcIdle
SpecLower == InitLower /\ [][LwNext]_vars

-----------------------------------------------------------------------------
(* minidec (src/minidec/main.rs): the loop over the functions of a module.  *)

\* The functions of matched_func_vec explored: 1..n for n up to MaxFns.
MaxFns == 3

\* The passes of the loop body in order (main.rs:85, 90-92, 96, 102-103,
\* 108-112, 135-140). A pass of the library that fails panics: none of the
\* calls returns a Result, and the file operations are unwrapped by expect.
Passes == <<"dce", "sccp", "dce again", "cse", "memoryssa", "write">>

\* main.rs:31-76: the module is loaded and matched_func_vec is built. fails
\* gives for every function the pass that fails on it, or "none".
MnStart ==
    /\ mn_st.pc = "new"
    /\ \E n \in 1..MaxFns :
       \E fails \in [1..n -> {"none"} \cup {Passes[k] : k \in DOMAIN Passes}] :
          mn_st' = [pc |-> "loop", fns |-> n, fails |-> fails, i |-> 1,
                    analysed |-> {}, passed |-> <<>>, written |-> {}]
    /\ UNCHANGED <<rf_vars, pw_vars, lf_vars, lw_st, pp_st, dc_st>>

\* main.rs:78-143: the body of the loop for the next function. A panic in a
\* pass is caught nowhere: it unwinds through main and ends the process.
MnFunction ==
    /\ mn_st.pc = "loop"
    /\ mn_st.i <= mn_st.fns
    /\ LET f == mn_st.i
           fail == mn_st.fails[f]
       IN  mn_st' =
             IF fail = "none"
             THEN [mn_st EXCEPT !.analysed = @ \cup {f},
                                !.passed = Append(@, Passes),
                                !.written = @ \cup {f},
                                !.i = @ + 1]
             ELSE [mn_st EXCEPT !.analysed = @ \cup {f},
                                !.passed = Append(@,
                                    SubSeq(Passes, 1,
                                        (CHOOSE k \in DOMAIN Passes : Passes[k] = fail) - 1)),
                                !.pc = "panic"]
    /\ UNCHANGED <<rf_vars, pw_vars, lf_vars, lw_st, pp_st, dc_st>>

\* main.rs:145-146: the loop is over and main returns.
MnEnd ==
    /\ mn_st.pc = "loop"
    /\ mn_st.i > mn_st.fns
    /\ mn_st' = [mn_st EXCEPT !.pc = "exit"]
    /\ UNCHANGED <<rf_vars, pw_vars, lf_vars, lw_st, pp_st, dc_st>>

MnNext == MnStart \/ MnFunction \/ MnEnd

InitMinidec ==
    /\ mn_st = [pc |-> "new"]
    /\ RfIdle /\ PwIdle /\ LfIdle /\ LwIdle /\ PpIdle /\ DcIdle
SpecMinidec == InitMinidec /\ [][MnNext]_vars

-----------------------------------------------------------------------------
(* The phi placer on its own (Braun-style SSA construction): one variable,  *)
(* a fixed CFG, and write_variable, read_variable and seal_block called in  *)
(* any order before finish() seals the remaining blocks.                    *)

\* The calls made before finish().
MaxPlacerOps == 3

\* Nodes: the values written (x, y), the phis by their position in phi, the
\* undefined value, and the absence of a node.
PNone == [k |-> "none", i |-> 0]
PUndef == [k |-> "undef", i |-> 0]
PPhi(i) == [k |-> "phi", i |-> i]
PValues == {[k |-> "x", i |-> 0], [k |-> "y", i |-> 0]}

\* The CFGs explored, as the predecessors of every block in insertion order;
\* block 1 is the entry: a diamond, a loop, a block that is its own first
\* predecessor, and a loop with two entries.
PlacerCfgs ==
    {<< <<>>, <<1>>, <<1>>, <<2, 3>> >>,
     << <<>>, <<1, 3>>, <<2>>, <<2>> >>,
     << <<>>, <<2, 1>>, <<2>>, <<3>> >>,
     << <<>>, <<1, 3>>, <<1, 2>>, <<2, 3>> >>}

\* The placer: def(v, b), the sealed blocks, the incomplete phis, and the
\* phis with their block, operands and ReplacedBy edge (rep).
PhiPlacer(preds) ==
    [pc |-> "ops", preds |-> preds, n |-> 0,
     def |-> [b \in DOMAIN preds |-> PNone],
     sealed |-> {},
     incomplete |-> [b \in DOMAIN preds |-> PNone],
     phi |-> <<>>, val |-> PNone, pre |-> PNone, order |-> <<>>]

\* Following ReplacedBy from a node, for as many steps as there are phis.
RECURSIVE Follow(_, _, _)
Follow(P, n, steps) ==
    IF steps = 0 \/ n.k # "phi" THEN n
    ELSE IF P.phi[n.i].rep = PNone THEN n
    ELSE Follow(P, P.phi[n.i].rep, steps - 1)
Deref(P, n) == Follow(P, n, Len(P.phi))

\* A new phi in block b, which becomes def(v, b).
new_phi(P, b) ==
    [P EXCEPT !.phi = Append(@, [block |-> b, ops |-> <<>>, rep |-> PNone]),
              !.def[b] = PPhi(Len(P.phi) + 1),
              !.val = PPhi(Len(P.phi) + 1)]

\* The operands of phi p other than p itself, through ReplacedBy.
NonSelfOperands(P, p) ==
    {Deref(P, P.phi[p].ops[j]) : j \in DOMAIN P.phi[p].ops} \ {PPhi(p)}

\* The value a trivial phi is replaced by, with the variant that takes the
\* first operand as it stands.
FirstOperand(P, p) == IF P.phi[p].ops = <<>> THEN PUndef ELSE P.phi[p].ops[1]
UniqueOperand(P, p) ==
    IF NonSelfOperands(P, p) = {} THEN PUndef
    ELSE CHOOSE same \in NonSelfOperands(P, p) : TRUE

\* The phis that use phi p.
PhiUsers(P, p) ==
    {q \in DOMAIN P.phi :
        /\ q # p
        /\ P.phi[q].rep = PNone
        /\ \E j \in DOMAIN P.phi[q].ops : Deref(P, P.phi[q].ops[j]) = PPhi(p)}

RECURSIVE try_remove_trivial_phi(_, _)
RECURSIVE try_users(_, _)

\* try_remove_trivial_phi on every phi of users, with the variant that
\* leaves the users alone.
leave_users(P, users) == P
try_users(P, users) ==
    IF users = {} THEN P
    ELSE Bind(try_remove_trivial_phi(P, CHOOSE q \in users : \A r \in users : q <= r),
              LAMBDA P1 :
                try_users(P1, users \ {CHOOSE q \in users : \A r \in users : q <= r}))

\* try_remove_trivial_phi(p), with the variant that removes no phi.
keep_phi(P, p) == [P EXCEPT !.val = PPhi(p)]
try_remove_trivial_phi(P, p) ==
    IF P.phi[p].rep # PNone \/ Cardinality(NonSelfOperands(P, p)) > 1
    THEN [P EXCEPT !.val = Deref(P, PPhi(p))]
    ELSE Bind(try_users([P EXCEPT !.phi[p].rep = UniqueOperand(P, p)],
                        PhiUsers(P, p)),
              LAMBDA P1 : [P1 EXCEPT !.val = Deref(P1, PPhi(p))])

RECURSIVE pp_read_variable(_, _)
RECURSIVE add_phi_operands(_, _, _)

\* read_variable_recursive(b, v)
read_variable_recursive(P, b) ==
    IF b \notin P.sealed
    THEN Bind(new_phi(P, b), LAMBDA P1 : [P1 EXCEPT !.incomplete[b] = P1.val])
    ELSE IF Len(P.preds[b]) = 1
    THEN pp_read_variable(P, P.preds[b][1])
    ELSE Bind(new_phi(P, b), LAMBDA P1 :
         Bind(add_phi_operands(P1, P1.val.i, P1.preds[b]), LAMBDA P2 :
            try_remove_trivial_phi(P2, P1.val.i)))

\* read_variable(b, v)
pp_read_variable(P, b) ==
    IF P.def[b] # PNone
    THEN [P EXCEPT !.val = Deref(P, P.def[b])]
    ELSE read_variable_recursive(P, b)

\* The operands of phi p: read_variable in every predecessor, in order.
add_phi_operands(P, p, preds) ==
    IF preds = <<>> THEN P
    ELSE Bind(pp_read_variable(P, Head(preds)), LAMBDA P1 :
            add_phi_operands([P1 EXCEPT !.phi[p].ops = Append(@, P1.val)],
                             p, Tail(preds)))

\* seal_block(b)
seal_block(P, b) ==
    Bind(IF P.incomplete[b] = PNone THEN P
         ELSE Bind(add_phi_operands(P, P.incomplete[b].i, P.preds[b]), LAMBDA P1 :
                 try_remove_trivial_phi(P1, P.incomplete[b].i)),
         LAMBDA P2 : [P2 EXCEPT !.incomplete[b] = PNone, !.sealed = @ \cup {b}])

\* finish(): seal_block on the blocks of order.
RECURSIVE seal_all(_, _)
seal_all(P, order) ==
    IF order = <<>> THEN P
    ELSE Bind(seal_block(P, Head(order)), LAMBDA P1 : seal_all(P1, Tail(order)))

PpCommit(P) ==
    /\ pp_st' = P
    /\ UNCHANGED <<rf_vars, pw_vars, lf_vars, lw_st, mn_st, dc_st>>

PpStart ==
    /\ pp_st.pc = "new"
    /\ \E preds \in PlacerCfgs : PpCommit(PhiPlacer(preds))

\* write_variable(b, v, node)
PpWrite ==
    /\ pp_st.pc = "ops" /\ pp_st.n < MaxPlacerOps
    /\ \E b \in DOMAIN pp_st.preds : \E node \in PValues :
          PpCommit([pp_st EXCEPT !.def[b] = node, !.n = @ + 1])

PpRead ==
    /\ pp_st.pc = "ops" /\ pp_st.n < MaxPlacerOps
    /\ \E b \in DOMAIN pp_st.preds :
       \E P \in {pp_read_variable(pp_st, b)} :
          PpCommit([P EXCEPT !.n = @ + 1])

PpSeal ==
    /\ pp_st.pc = "ops" /\ pp_st.n < MaxPlacerOps
    /\ \E b \in DOMAIN pp_st.preds \ pp_st.sealed :
       \E P \in {seal_block(pp_st, b)} :
          PpCommit([P EXCEPT !.n = @ + 1])

\* The orders in which the blocks of a set can be sealed.
Orders(S) ==
    {o \in [1..Cardinality(S) -> S] : \A i, j \in DOMAIN o : o[i] = o[j] => i = j}

\* finish() seals the remaining blocks in some order; pre keeps the placer
\* as finish() found it and order the order taken.
PpFinish ==
    /\ pp_st.pc = "ops"
    /\ \E order \in Orders(DOMAIN pp_st.preds \ pp_st.sealed) :
       \E P \in {seal_all(pp_st, order)} :
          PpCommit([P EXCEPT !.pc = "done", !.pre = pp_st, !.order = order])

PpNext == PpStart \/ PpWrite \/ PpRead \/ PpSeal \/ PpFinish

InitPlacer ==
    /\ pp_st = [pc |-> "new"]
    /\ RfIdle /\ PwIdle /\ LfIdle /\ LwIdle /\ MnIdle /\ DcIdle
SpecPlacer == InitPlacer /\ [][PpNext]_vars

-----------------------------------------------------------------------------
(* Dead code elimination (dce::collect), run on the SSA that               *)
(* lower_simpleast built: mark from the roots, then sweep.                  *)

\* The roots of the marking, with the variant that forgets the Stores and
\* the Calls: the exit node, the Stores, the Calls, the register-state
\* tuples and the selectors.
DceRootsWithoutEffects(S) ==
    {n \in DOMAIN S.nodes : S.nodes[n].kind \in {"DynamicAction", "RegisterState"}}
    \cup {S.selector[i].sel : i \in DOMAIN S.selector}
DceRoots(S) ==
    {n \in DOMAIN S.nodes :
        \/ S.nodes[n].kind \in {"DynamicAction", "RegisterState"}
        \/ S.nodes[n].kind = "Op" /\ S.nodes[n].opcode \in {"OpStore", "OpCall"}}
    \cup {S.selector[i].sel : i \in DOMAIN S.selector}

\* Marking follows the Data edges from a marked node to its operands.
RECURSIVE DceMark(_, _)
DceMark(S, marked) ==
    IF \A i \in DOMAIN S.data : S.data[i].from \in marked => S.data[i].to \in marked
    THEN marked
    ELSE DceMark(S, marked \cup {S.data[i].to : i \in
                        {j \in DOMAIN S.data : S.data[j].from \in marked}})

\* dce::collect: the sweep removes every Op, Phi and Comment left unmarked.
DceCollect ==
    /\ lw_st.pc = "ok"
    /\ dc_st.pc = "new"
    /\ dc_st' = [pc |-> "done",
                 removed |-> {n \in DOMAIN lw_st.nodes :
                                /\ lw_st.nodes[n].kind \in {"Op", "Phi", "Comment"}
                                /\ n \notin DceMark(lw_st, DceRoots(lw_st))}]
    /\ UNCHANGED <<rf_vars, pw_vars, lf_vars, lw_st, mn_st, pp_st>>

DceNext ==
    LwStart \/ LwFirst \/ LwNoBlocks \/ LwOp \/ LwJump \/ LwFinal \/ LwOk \/ DceCollect

InitDce ==
    /\ LwNew
    /\ dc_st = [pc |-> "new"]
    /\ RfIdle /\ PwIdle /\ LfIdle /\ MnIdle /\ PpIdle
SpecDce == InitDce /\ [][DceNext]_vars

-----------------------------------------------------------------------------
(* Properties of SubRegisterFile::new.                                      *)

\* C1: in the walk over the sorted, non-filtered descriptors, a descriptor
\* opens a new whole register exactly when its offset is >= the end
\* (offset + width) of the current whole register; the whole register is
\* then recorded under its own name with shift 0 and its full width. Every
\* other descriptor leaves the whole registers as they are and (unless the
\* assertion aborts the construction) is recorded as a sub-register of the
\* current whole register with shift = its offset - the whole's offset and
\* its own width.
C1_WalkClassifies ==
    [][(rf_pc = "walk" /\ rf_i <= Len(events)) =>
        LET ev == events[rf_i]
            name == RegName(ev.base)
            n == Len(whole)
        IN IF ev.shift >= current.shift + current.width
           THEN /\ rf_pc' = "walk"
                /\ whole' = Append(whole, ev.width)
                /\ names' = Append(names, name)
                /\ current' = ev
                /\ get_subregister(slices', name) = SubRegister(n, 0, ev.width)
           ELSE /\ whole' = whole
                /\ names' = names
                /\ current' = current
                /\ \/ rf_pc' = "panic"
                   \/ get_subregister(slices', name) =
                          SubRegister(n - 1, ev.shift - current.shift, ev.width)
      ]_vars

\* C1 witness: the construction returned a register file that holds a
\* sub-register at a shift > 0 of its whole register.
C1_Witness ==
    /\ rf_pc = "done"
    /\ \E name \in DOMAIN slices :
          slices[name].shift > 0 /\ slices[name].width < whole[slices[name].base + 1]

\* C2: every register get_subregister resolves has a valid whole-register
\* index as base and shift + width at most that whole register's width; a
\* construction that returns has a mapping for every non-filtered
\* descriptor, and a construction aborts exactly on a descriptor that starts
\* inside the current whole register and ends past its end, for which no
\* mapping exists.
C2_SubRegisterInsideWhole ==
    /\ \A name \in DOMAIN slices :
          LET sub == get_subregister(slices, name)
          IN /\ sub.base \in 0..(Len(whole) - 1)
             /\ sub.shift + sub.width <= whole[sub.base + 1]
    /\ rf_pc = "done" =>
          \A i \in 1..Len(events) : RegName(events[i].base) \in DOMAIN slices
    /\ rf_pc = "panic" =>
          LET ev == events[rf_i]
          IN /\ ev.shift < current.shift + current.width
             /\ ev.shift + ev.width > current.shift + current.width
             /\ get_subregister(slices, RegName(ev.base)) = "None"
    /\ (rf_pc = "walk" /\ rf_i > 1) =>
          LET ev == events[rf_i - 1]
          IN ~(/\ ev.shift < current.shift + current.width
               /\ ev.shift + ev.width > current.shift + current.width)

\* C2 witness: the construction aborted on the assertion.
C2_Witness == rf_pc = "panic" /\ Len(whole) = 1 /\ DOMAIN slices # {}

-----------------------------------------------------------------------------
(* Properties of the partial register write and read.                       *)

\* The mask of the register `info`: ((1 << w) - 1) << s.
SubMask(info) == (Pow2(info.width) - 1) * Pow2(info.shift)

\* C3: a write of a value of any width up to W to a sub-register of width
\* w at shift s leaves every bit of the whole register outside the mask
\* ((1 << w) - 1) << s as it was before the write.
C3_WritePreservesOutsideMask ==
    pw_pc \in {"written", "read"} =>
        BitAnd(pw_def, Pow2(pw_width) - 1 - SubMask(pw_info))
            = BitAnd(pw_old, Pow2(pw_width) - 1 - SubMask(pw_info))

\* C4: a read of a sub-register directly after a write of v to the same
\* sub-register yields v modulo 2^w.
C4_ReadAfterWrite ==
    pw_pc = "read" => pw_read = pw_value.val % Pow2(pw_info.width)

\* C4 witness: a value with bits at positions >= w was written to, and read
\* back from, a sub-register at a shift > 0 narrower than its whole register
\* whose other bits were set.
C4_Witness ==
    /\ pw_pc = "read"
    /\ pw_info.shift > 0
    /\ pw_info.shift + pw_info.width < pw_width
    /\ pw_value.val >= Pow2(pw_info.width)
    /\ pw_old = Pow2(pw_width) - 1

-----------------------------------------------------------------------------
(* Width normalisation in process_op                                        *)

\* The operands attached to node n at index idx, in graph g.
ArgAt(g, n, idx) == {g[n].args[k][2] : k \in {j \in DOMAIN g[n].args : g[n].args[j][1] = idx}}

BinaryOpcodes == {Opcode(t) : t \in BinaryTokens}
WidenOf(n, v, w) ==
    nodes[n].opcode = "OpWiden" /\ nodes[n].width = w /\ ArgAt(nodes, n, 0) = {v}

\* A token of the common path was the last thing processed, with both operands.
AfterBinaryToken ==
    /\ lf_pc = "tokens"
    /\ current_address.offset > 0
    /\ token.t \in BinaryTokens
    /\ lhs # 0
    /\ rhs # 0

\* C5: every two-operand node emitted through the common path of process_op
\* has operands 0 and 1 of equal width; when the resolved widths differ the
\* narrower operand is replaced by a Widen to the larger width; and but for
\* Lt and Gt the width of the result is that common width.
C5_OperandsOfEqualWidth ==
    /\ \A k \in DOMAIN intermediates :
          LET n == intermediates[k]
          IN (nodes[n].opcode \in BinaryOpcodes /\ Len(nodes[n].args) = 2) =>
                \E a \in ArgAt(nodes, n, 0), b \in ArgAt(nodes, n, 1) :
                    /\ nodes[a].width = nodes[b].width
                    /\ nodes[n].opcode \notin {"OpLt", "OpGt"} => nodes[n].width = nodes[a].width
    /\ AfterBinaryToken =>
          LET n == intermediates[Len(intermediates)]
              lw == nodes[lhs].width
              rw == nodes[rhs].width
          IN /\ nodes[n].opcode = Opcode(token.t)
             /\ \E a \in ArgAt(nodes, n, 0), b \in ArgAt(nodes, n, 1) :
                    IF lw < rw THEN WidenOf(a, lhs, rw) /\ b = rhs
                    ELSE IF lw > rw THEN a = lhs /\ WidenOf(b, rhs, lw)
                    ELSE a = lhs /\ b = rhs

\* C5 witness: an Add whose left operand is narrower than its right operand.
C5_Witness ==
    /\ AfterBinaryToken
    /\ token.t = "EAdd"
    /\ nodes[lhs].width < nodes[rhs].width
    /\ nodes[rhs].width = WordBits

-----------------------------------------------------------------------------
(* The control flow graph run() leaves                                      *)

\* The control edges that leave block b with the given tag.
OutEdges(b, tag) == {i \in DOMAIN edges : edges[i].src = b /\ edges[i].tag = tag}
OutDegree(b) == Cardinality({i \in DOMAIN edges : edges[i].src = b})

\* The blocks that hold an ITE node: the blocks that issued an If.
Conditional(b) ==
    \E n \in DOMAIN nodes : nodes[n].opcode = "OpITE" /\ block_of(blocks, nodes[n].addr) = b

\* C6: after run(), every block that issued an If has exactly one TRUE and
\* exactly one FALSE outgoing control edge, also when the If is in the last
\* instruction of the stream.
C6_ConditionalHasTrueAndFalse ==
    lf_pc = "done" =>
        \A b \in blocks :
            Conditional(b) =>
                /\ Cardinality(OutEdges(b, TRUE_EDGE)) = 1
                /\ Cardinality(OutEdges(b, FALSE_EDGE)) = 1

\* C7: after run(), every block that is neither conditional nor the exit has
\* exactly one outgoing control edge, tagged UNCOND; so a block ended by a
\* constant assignment to the PC register has only the edge to the target.
C7_UnconditionalHasOneEdge ==
    lf_pc = "done" =>
        \A b \in blocks \ {ExitAddress} :
            ~Conditional(b) =>
                /\ OutDegree(b) = 1
                /\ Cardinality(OutEdges(b, UNCOND_EDGE)) = 1

\* C8: after run(), the start block (0,0) has no incoming control edge and
\* the exit node has no outgoing control edge.
C8_StartHasNoPredecessor ==
    lf_pc = "done" =>
        \A i \in DOMAIN edges :
            /\ edges[i].dst # StartAddress
            /\ edges[i].src # ExitAddress

-----------------------------------------------------------------------------
(* Assignments and calls                                                    *)

IsRegisterToken(t) == t.t \in {"ERegister", "EIdentifier"} /\ t.name \in DOMAIN regfile.slices
IsPC(t) == IsRegisterToken(t) /\ t.name \in DOMAIN alias_info /\ alias_info[t.name] = "PC"

\* A turn of the token loop that processed token t without a panic.
TokenStep(t) ==
    /\ lf_pc = "tokens"
    /\ lf_pc' = "tokens"
    /\ n_toks' = n_toks + 1
    /\ token'.t = t

\* C9: an assignment with the PC register on the left and a constant on the
\* right targets the block of that address with an UNCOND edge from the
\* current block and sets needs_new_block; any other assignment with a
\* register on the left, in either token form, writes the register; any
\* other assignment emits a Store of rhs at lhs; no value is pushed.
C9_AssignmentDispatch ==
    [][TokenStep("EEq") =>
        LET l == operands'[1]
            r == operands'[2]
            here == block_of(blocks', current_address)
        IN /\ intermediates' = intermediates
           /\ IF IsPC(l) /\ r.t = "EConstant"
              THEN /\ MAddress(r.v, 0) \in blocks'
                   /\ edges' = Append(edges, ControlEdge(here, MAddress(r.v, 0), UNCOND_EDGE))
                   /\ needs_new_block'
              ELSE IF IsRegisterToken(l)
              THEN LET info == regfile.slices[l.name]
                   IN /\ <<here, info.base>> \in DOMAIN defs'
                      /\ LET d == defs'[<<here, info.base>>]
                         IN IF info.width >= regfile.whole[info.base + 1] THEN d = rhs'
                            ELSE d > Len(nodes) /\ nodes'[d].opcode = "OpOr"
              ELSE /\ Len(nodes') > Len(nodes)
                   /\ nodes'[Len(nodes')].opcode = "OpStore"
                   /\ nodes'[Len(nodes')].args = <<<<0, lhs'>>, <<1, rhs'>>>>
    ]_vars

\* The step is an instruction of class call: it emits the Call node c.
CallStep(c) ==
    /\ c \in (Len(nodes) + 1)..Len(nodes')
    /\ nodes'[c].opcode = "OpCall"

\* What the call at node c does with whole register i: slot i + 1 holds the
\* value the register had when the call was reached (its definition in the
\* block, or a phi made by that read), and the register is then defined by a
\* Comment made at this call, which is another node.
CallClobbers(c, i) ==
    LET here == block_of(blocks', MAddress(current_address'.address, 0))
        d == defs'[<<here, i>>]
    IN /\ \E v \in ArgAt(nodes', c, i + 1) :
            /\ ArgAt(nodes', c, i + 1) = {v}
            /\ IF <<here, i>> \in DOMAIN defs THEN v = defs[<<here, i>>]
               ELSE v > Len(nodes) /\ nodes'[v].kind = "Phi" /\ nodes'[v].info = <<i>>
            /\ d # v
       /\ d > Len(nodes)
       /\ nodes'[d].kind = "Comment"
       /\ nodes'[d].label = regfile.names[i + 1]
       /\ call_def'[i].node = d

CallSlots ==
    \A c \in DOMAIN nodes' :
        CallStep(c) =>
            /\ Len(nodes'[c].args) = NumWhole + 1
            /\ \A i \in 0..(NumWhole - 1) : CallClobbers(c, i)

\* Operand k of the token just processed named whole register i, which a call
\* has defined and nothing has written since.
ReadsAfterCall(k, i) ==
    /\ \E t \in CommonTokens \cup {"EIf", "EEq"} : TokenStep(t)
    /\ IsRegisterToken(operands'[k])
    /\ operands'[k].name = regfile.names[i + 1]
    /\ call_def[i].node # 0

Resolved(k) == IF k = 1 THEN lhs' ELSE rhs'

-----------------------------------------------------------------------------
(* Tokens without a translation                                             *)

\* A turn of the token loop on a token that process_op does not translate.
UnimplementedStep ==
    /\ lf_pc = "tokens"
    /\ n_toks' = n_toks + 1
    /\ token'.t \in UnimplementedTokens

NewNodes == (Len(nodes) + 1)..Len(nodes')

-----------------------------------------------------------------------------
(* Properties of lower_simpleast.                                           *)

\* The storage as lower_simpleast received it.
LwUntouched ==
    /\ lw_st.nodes = <<>> /\ lw_st.data = <<>> /\ lw_st.contained = <<>>
    /\ lw_st.cedges = <<>> /\ lw_st.selector = <<>>

\* The data edges that carry an operand index.
IndexedUses == {i \in DOMAIN lw_st.data : lw_st.data[i].indexed}

\* C12, as stated: lower_simpleast returns InvalidAst exactly when the
\* register list has 255 entries or more, the SSA is unchanged when it does,
\* and every operand index of an accepted list fits in 8 bits.
C12_InvalidAstExactlyWhenTooMany ==
    lw_st.pc # "new" =>
        /\ (lw_st.pc = "err") <=> (lw_st.nregs >= U8 - 1)
        /\ lw_st.pc = "err" => LwUntouched
        /\ \A i \in IndexedUses :
              lw_st.data[i].exact < U8 /\ lw_st.data[i].idx = lw_st.data[i].exact

\* C12, amended: the InvalidAst "too many registers" is returned exactly when
\* the register list has 255 entries or more, and the SSA is unchanged then;
\* every operand index of an accepted list (a register's index, that index
\* plus one for a call argument, the list's length for `mem`) fits in 8 bits,
\* so the index stored is the index computed. InvalidAst is also returned,
\* with nodes already inserted, for a value reference without a definition
\* and for a register that is not in the list.
C12_TooManyRegistersExactly ==
    lw_st.pc # "new" =>
        /\ (lw_st.err = "too many registers") <=> (lw_st.nregs >= U8 - 1)
        /\ lw_st.err = "too many registers" => lw_st.pc = "err" /\ LwUntouched
        /\ lw_st.pc = "err" =>
              lw_st.err \in {"too many registers", "no value reference",
                             "no physical register"}
        /\ \A i \in IndexedUses :
              lw_st.data[i].exact < U8 /\ lw_st.data[i].idx = lw_st.data[i].exact

\* The largest accepted list: a call argument in its last register and the
\* final value of `mem` both get index 254.
C12_Witness ==
    /\ lw_st.pc = "ok"
    /\ lw_st.nregs = U8 - 2
    /\ \E i \in IndexedUses :
          /\ lw_st.nodes[lw_st.data[i].from].opcode = "OpCall"
          /\ lw_st.data[i].idx = U8 - 2
    /\ \E i \in IndexedUses :
          /\ lw_st.data[i].from = lw_st.final
          /\ lw_st.data[i].idx = U8 - 2

\* The ContainedInBB edges of node n.
ContainedIn(n) == {i \in DOMAIN lw_st.contained : lw_st.contained[i].node = n}

\* C13: after a successful lower_simpleast every Op node, the Const nodes of
\* constant operands included, and every Phi node has exactly one
\* ContainedInBB edge.
C13_EveryOpAndPhiContained ==
    lw_st.pc = "ok" =>
        \A n \in DOMAIN lw_st.nodes :
            lw_st.nodes[n].kind \in {"Op", "Phi"} =>
                Cardinality(ContainedIn(n)) = 1

\* The Data edges out of node n.
UsesOf(n) == {i \in DOMAIN lw_st.data : lw_st.data[i].from = n}

\* C14: every Op node that lower_simpleast produced carries Data edges whose
\* indices are exactly 0..k-1 for its k operands, without gap or duplicate,
\* Call nodes lowered from any argument list included.
C14_DenseOperandIndices ==
    lw_st.pc = "ok" =>
        \A n \in DOMAIN lw_st.nodes :
            lw_st.nodes[n].kind = "Op" =>
                /\ {lw_st.data[i].idx : i \in UsesOf(n)} = 0..(Cardinality(UsesOf(n)) - 1)
                /\ \A i, j \in UsesOf(n) :
                      lw_st.data[i].idx = lw_st.data[j].idx => i = j

-----------------------------------------------------------------------------
(* Properties of the loop of minidec.                                       *)

\* C15: when the tool has stopped, a function whose analysis failed has had
\* its analysis aborted, and every later function has still been analysed
\* and, failing in no pass itself, has had its IR written.
C15_LaterFunctionsAnalysed ==
    mn_st.pc \in {"exit", "panic"} =>
        \A f \in 1..mn_st.fns :
            mn_st.fails[f] # "none" =>
                /\ f \in mn_st.analysed /\ f \notin mn_st.written
                /\ \A g \in (f + 1)..mn_st.fns :
                      /\ g \in mn_st.analysed
                      /\ mn_st.fails[g] = "none" => g \in mn_st.written

-----------------------------------------------------------------------------
(* Properties of the phi placer.                                            *)

PlacerRuns == pp_st.pc \in {"ops", "done"}
LivePhis == {p \in DOMAIN pp_st.phi : pp_st.phi[p].rep = PNone}

\* C16: once every block is sealed, no phi remains whose operands, ignoring
\* the phi itself, are all the same value; this covers the phi at the join
\* of a diamond whose arms write the same node, and the phis that became
\* trivial because they used a phi that was removed.
C16_NoTrivialPhiRemains ==
    (PlacerRuns /\ pp_st.sealed = DOMAIN pp_st.preds) =>
        \A p \in LivePhis : Cardinality(NonSelfOperands(pp_st, p)) > 1

\* The diamond: both arms wrote x, the join was read before it was sealed,
\* and after finish() its phi is replaced by x and no phi is left.
C16_Witness ==
    /\ pp_st.pc = "done"
    /\ pp_st.preds[4] = <<2, 3>>
    /\ pp_st.def[2] = [k |-> "x", i |-> 0]
    /\ pp_st.def[3] = [k |-> "x", i |-> 0]
    /\ \E p \in DOMAIN pp_st.phi :
          pp_st.phi[p].block = 4 /\ pp_st.phi[p].rep = [k |-> "x", i |-> 0]
    /\ LivePhis = {}

\* C17: after any sequence of write_variable, read_variable, seal_block and
\* removals of trivial phis, following ReplacedBy from any node reaches a
\* node without a ReplacedBy edge within as many steps as there are nodes.
C17_ReplacedByTerminates ==
    PlacerRuns =>
        \A p \in DOMAIN pp_st.phi :
            Deref(pp_st, PPhi(p)).k = "phi" =>
                pp_st.phi[Deref(pp_st, PPhi(p)).i].rep = PNone

\* A chain of two ReplacedBy edges: a phi replaced by a phi that was
\* replaced in turn.
C17_Witness ==
    /\ PlacerRuns
    /\ \E p \in DOMAIN pp_st.phi :
          /\ pp_st.phi[p].rep.k = "phi"
          /\ pp_st.phi[pp_st.phi[p].rep.i].rep # PNone

\* The SSA up to the identity of its phis: a phi is named by its block. The
\* value read in every block, and the phis left with their operands.
PhiName(P, n) == IF n.k = "phi" THEN [k |-> "phi", i |-> P.phi[n.i].block] ELSE n
ReadName(P) == PhiName(P, P.val)
SsaUpToPhis(P) ==
    [reads |-> [b \in DOMAIN P.preds |-> ReadName(pp_read_variable(P, b))],
     phis |-> {[block |-> P.phi[p].block,
                ops |-> [j \in DOMAIN P.phi[p].ops |->
                            PhiName(P, Deref(P, P.phi[p].ops[j]))]] :
               p \in {q \in DOMAIN P.phi : P.phi[q].rep = PNone}}]
AscendingOrder(S) == CHOOSE o \in Orders(S) : \A i, j \in DOMAIN o : i < j => o[i] < o[j]

\* C18: whatever the order in which finish() sealed the remaining blocks,
\* the SSA is the one that sealing them in ascending order yields, up to
\* the identity of the phis: the same value is read in every block and the
\* same phis with the same operands remain.
C18_SealingOrderIrrelevant ==
    pp_st.pc = "done" =>
        SsaUpToPhis(pp_st) =
            SsaUpToPhis(seal_all(pp_st.pre,
                AscendingOrder(DOMAIN pp_st.preds \ pp_st.pre.sealed)))

\* finish() sealed every block, the last one first, a phi is left and
\* another one was removed.
C18_Witness ==
    /\ pp_st.pc = "done"
    /\ pp_st.order = <<4, 3, 2, 1>>
    /\ LivePhis # {}
    /\ \E p \in DOMAIN pp_st.phi : pp_st.phi[p].rep # PNone

-----------------------------------------------------------------------------
(* Properties of dead code elimination.                                     *)

\* The nodes that the nodes of a set depend on through Data edges.
RECURSIVE DependsOn(_)
DependsOn(set) ==
    LET more == set \cup {lw_st.data[i].to : i \in
                    {j \in DOMAIN lw_st.data : lw_st.data[j].from \in set}}
    IN  IF more = set THEN set ELSE DependsOn(more)

EffectNodes ==
    {n \in DOMAIN lw_st.nodes :
        lw_st.nodes[n].kind = "Op" /\ lw_st.nodes[n].opcode \in {"OpStore", "OpCall"}}

\* C19: dead code elimination removes no Store, no Call and no node that
\* the exit register state depends on through Data edges, so the Stores,
\* the Calls and the bindings of the exit register state are the same
\* before and after.
C19_DcePreserves ==
    dc_st.pc = "done" =>
        /\ EffectNodes \cap dc_st.removed = {}
        /\ DependsOn({lw_st.final}) \cap dc_st.removed = {}
        /\ \A i \in DOMAIN lw_st.data :
              lw_st.data[i].from \in EffectNodes \cup {lw_st.final} =>
                  lw_st.data[i].to \notin dc_st.removed

\* A Call with an argument was kept together with its operands, and an
\* operation that nothing uses was removed.
C19_Witness ==
    /\ dc_st.pc = "done"
    /\ \E n \in EffectNodes :
          lw_st.nodes[n].opcode = "OpCall" /\ Cardinality(UsesOf(n)) = 2
    /\ \E n \in dc_st.removed : lw_st.nodes[n].opcode = "OpNot"

-----------------------------------------------------------------------------
(* Properties of the constants of the lifter.                               *)

ConstNodes(v) ==
    {n \in DOMAIN nodes : nodes[n].opcode = "OpConst" /\ nodes[n].info = <<v>>}

\* C23: over one run of the lifter every constant value is backed by at
\* most one Const node: a later occurrence of a value resolves to the node
\* of the first occurrence and creates no further Const node.
C23_OneConstNodePerValue ==
    \A v \in DOMAIN constants :
        /\ constants[v] \in ConstNodes(v)
        /\ Cardinality(ConstNodes(v)) <= 1

-----------------------------------------------------------------------------
(* Properties of the pending conditionals of the lifter.                    *)

\* run() enters an instruction that has an expression and is not a call.
EsilStep ==
    /\ n_ops' = n_ops + 1
    /\ lf_pc' = "tokens"

NewEdges == (Len(edges) + 1)..Len(edges')

\* The pending pair at position k of the nesting stack is resolved by the
\* step: a new FALSE edge from the block of its address to the block at the
\* address the step moves to, and the conditional's only operand 2 is a new
\* comment "F" for that address.
ResolvedByStep(k) ==
    LET ite == nesting[k][1]
        src == nesting[k][2]
        cur == current_address'
        twos == {a \in 1..Len(nodes'[ite].args) : nodes'[ite].args[a][1] = 2}
    IN /\ cur \in blocks'
       /\ \E e \in NewEdges :
             edges'[e] = ControlEdge(block_of(blocks', src), cur, FALSE_EDGE)
       /\ Cardinality(twos) = 1
       /\ \A a \in twos :
             LET c == nodes'[ite].args[a][2]
             IN /\ c \in NewNodes
                /\ nodes'[c].kind = "Comment"
                /\ nodes'[c].label = "F"
                /\ nodes'[c].info = <<cur.address, cur.offset>>

\* C24: an If pushes its conditional and its address on the nesting stack,
\* and the next instruction that carries an expression resolves every
\* pending pair before its first token: a FALSE edge from the pair's address
\* to the block at the instruction's address, operand 2 of the conditional
\* set to the comment for that address, and the stack left empty.  An
\* instruction without an expression leaves the stack as it is.
C24_PendingIfsResolved ==
    [][/\ TokenStep("EIf") =>
             /\ Len(nodes') > Len(nodes)
             /\ \E n \in NewNodes :
                   /\ nodes'[n].opcode = "OpITE"
                   /\ nesting' = Append(nesting, <<n, current_address>>)
       /\ EsilStep =>
             /\ nesting' = <<>>
             /\ current_address'.offset = 0
             /\ \A k \in 1..Len(nesting) : ResolvedByStep(k)
       /\ (n_ops' = n_ops + 1 /\ lf_pc' = "ops") => nesting' = nesting
    ]_vars

\* Two conditionals of one instruction have been resolved at the head of
\* the instruction whose tokens are about to be processed.
C24_Witness ==
    /\ lf_pc = "tokens"
    /\ nesting = <<>>
    /\ Cardinality({e \in 1..Len(edges) :
                       /\ edges[e].tag = FALSE_EDGE
                       /\ edges[e].dst = MAddress(current_address.address, 0)}) >= 2

-----------------------------------------------------------------------------
(* Properties of the memory pseudo-variable of the lifter.                  *)

\* The block the token of the step is processed in.
TokenBlock == block_of(blocks, current_address)

\* The definition of memory a token of the step reads: the definition its
\* block has, or the phi the read makes when the block has none yet.
MemoryRead(m) ==
    IF <<TokenBlock, MemId>> \in DOMAIN defs
    THEN m = defs[<<TokenBlock, MemId>>]
    ELSE /\ m \in NewNodes
         /\ nodes'[m].kind = "Phi"
         /\ nodes'[m].info = <<MemId>>

\* The definitions of memory, per block.
MemoryDefs(d) == [k \in {k \in DOMAIN d : k[2] = MemId} |-> d[k]]

NewOps(opcode) == {n \in NewNodes : nodes'[n].opcode = opcode}

\* C25: memory is versioned in program order.  The Store of a Poke has the
\* current definition of memory as operand 0 and becomes the current
\* definition of memory in its block; the Load of a Peek has the current
\* definition of memory as operand 0 and that definition stays the current
\* one; so a Load that follows a Poke in a block reads from its Store.
C25_MemoryVersioned ==
    [][/\ TokenStep("EPoke") =>
             /\ Cardinality(NewOps("OpStore")) = 1
             /\ NewOps("OpLoad") = {}
             /\ \A s \in NewOps("OpStore") :
                   /\ Len(nodes'[s].args) = 3
                   /\ nodes'[s].args[1][1] = 0
                   /\ MemoryRead(nodes'[s].args[1][2])
                   /\ MemoryDefs(defs') =
                         (<<TokenBlock, MemId>> :> s) @@ MemoryDefs(defs)
       /\ TokenStep("EPeek") =>
             /\ Cardinality(NewOps("OpLoad")) = 1
             /\ NewOps("OpStore") = {}
             /\ \A l \in NewOps("OpLoad") :
                   /\ Len(nodes'[l].args) = 2
                   /\ nodes'[l].args[1][1] = 0
                   /\ MemoryRead(nodes'[l].args[1][2])
                   /\ MemoryDefs(defs') =
                         (<<TokenBlock, MemId>> :> nodes'[l].args[1][2]) @@ MemoryDefs(defs)
                   /\ <<TokenBlock, MemId>> \in DOMAIN defs =>
                         MemoryDefs(defs') = MemoryDefs(defs)
    ]_vars

\* A Load that reads from the Store of an earlier Poke of its block, which
\* is still the definition of memory there.
C25_Witness ==
    \E l, s \in DOMAIN nodes :
        /\ nodes[l].opcode = "OpLoad"
        /\ nodes[s].opcode = "OpStore"
        /\ nodes[l].args # <<>>
        /\ nodes[l].args[1] = <<0, s>>
        /\ \E b \in blocks :
              /\ <<b, MemId>> \in DOMAIN defs
              /\ defs[<<b, MemId>>] = s

\* The variables whose definition in some block the step sets or changes.
Redefined ==
    {k[2] : k \in {k \in DOMAIN defs' : k \notin DOMAIN defs \/ defs'[k] # defs[k]}}

\* C30: an instruction of class call leaves the definitions of memory as
\* they are and emits no Load and no Store; no token of its expression is
\* interpreted; the whole registers, and nothing else, get a new definition.
C30_CallLeavesMemory ==
    [][(\E c \in NewNodes : nodes'[c].opcode = "OpCall") =>
          /\ MemoryDefs(defs') = MemoryDefs(defs)
          /\ NewOps("OpLoad") = {}
          /\ NewOps("OpStore") = {}
          /\ n_toks' = n_toks
          /\ token' = token
          /\ operands' = operands
          /\ intermediates' = intermediates
          /\ lf_pc' = "ops"
          /\ Redefined = 0..(NumWhole - 1)
    ]_vars

\* A call has been lifted after a Poke of its block, and the Store of the
\* Poke is still the definition of memory there.
C30_Witness ==
    /\ lf_pc = "ops"
    /\ \E c, s \in DOMAIN nodes :
          /\ s < c
          /\ nodes[c].opcode = "OpCall"
          /\ nodes[s].opcode = "OpStore"
          /\ <<block_of(blocks, current_address), MemId>> \in DOMAIN defs
          /\ defs[<<block_of(blocks, current_address), MemId>>] = s

-----------------------------------------------------------------------------
(* Properties of the end of the lifter's run.                               *)

\* What holds when run() has returned: the last edge added is the UNCOND
\* edge from the block of the last current address to the exit, every block
\* is sealed, and no phi is incomplete.
RunReturned ==
    /\ edges # <<>>
    /\ edges[Len(edges)] =
          ControlEdge(block_of(blocks, current_address), ExitAddress, UNCOND_EDGE)
    /\ sealed = blocks
    /\ incomplete = {}

-----------------------------------------------------------------------------
(* Properties of the control flow graph built by lower_simpleast.           *)

LwBlocks == {b \in DOMAIN lw_st.nodes : lw_st.nodes[b].kind = "BasicBlock"}
LwOutEdges(b) == {e \in DOMAIN lw_st.cedges : lw_st.cedges[e].source = b}
LwOutTypes(b, type) == {e \in LwOutEdges(b) : lw_st.cedges[e].type = type}

\* C27: after a successful lowering every basic block has either a single
\* UNCOND edge, or one TRUE and one FALSE edge and a selector; the exit node
\* has no outgoing control edge.
C27_BlockEdgeShapes ==
    lw_st.pc = "ok" =>
        /\ LwOutEdges(lw_st.exit) = {}
        /\ \A b \in LwBlocks :
              \/ /\ Cardinality(LwOutEdges(b)) = 1
                 /\ Cardinality(LwOutTypes(b, UNCOND_EDGE)) = 1
              \/ /\ Cardinality(LwOutEdges(b)) = 2
                 /\ Cardinality(LwOutTypes(b, TRUE_EDGE)) = 1
                 /\ Cardinality(LwOutTypes(b, FALSE_EDGE)) = 1
                 /\ \E i \in DOMAIN lw_st.selector : lw_st.selector[i].bb = b

\* C28: after a successful lowering no two basic block nodes, the entry
\* block at (0,0) included, carry the same machine address.
C28_DistinctBlockAddresses ==
    lw_st.pc = "ok" =>
        \A a, b \in LwBlocks :
            lw_st.nodes[a].opcode = lw_st.nodes[b].opcode => a = b

-----------------------------------------------------------------------------
(* Properties of the value references of lower_simpleast.                   *)

\* The operands of an operation of the AST, in the order they are lowered.
OperandList(sopn) ==
    CASE sopn.k = "Phi" -> Reverse(sopn.sops)
      [] sopn.k = "Assign" -> sopn.sops
      [] sopn.k = "Call" ->
            <<sopn.tgt>> \o [i \in 1..Len(sopn.sargs) |-> sopn.sargs[i].actual]

\* The definitions of reference r made so far, oldest first.
DefinitionsOf(S, r) == SelectSeq(S.values, LAMBDA v : v.vr = r)

Undefined(S, sop) == sop.k = "ValueRef" /\ DefinitionsOf(S, sop.r) = <<>>

\* Lowering operation sopn in state S gave R.  A reference without an
\* earlier definition is an error (the operation's own result is not yet a
\* definition while its operands are lowered); without an error every
\* reference is bound to the latest definition made before the operation.
RefsResolved(S, sopn, R) ==
    LET sops == OperandList(sopn)
        res == Len(S.nodes) + 1
    IN /\ (\E k \in DOMAIN sops : Undefined(S, sops[k])) => R.err # ""
       /\ R.err = "no value reference" => \E k \in DOMAIN sops : Undefined(S, sops[k])
       /\ R.err = "" =>
             /\ Len(R.data) = Len(S.data) + Len(sops)
             /\ \A k \in DOMAIN sops :
                   LET use == R.data[Len(S.data) + k]
                       ds == DefinitionsOf(S, sops[k].r)
                   IN /\ use.from = res
                      /\ IF sops[k].k = "ValueRef"
                         THEN /\ use.to = ds[Len(ds)].node
                              /\ use.to < res
                         ELSE use.to > res

\* C29: a value reference is resolved only to an operation lowered earlier:
\* an operand (a phi operand included) that refers to a value with no
\* earlier definition makes the lowering fail with InvalidAst, and an operand
\* that refers to an earlier value is bound to the node of the most recent
\* earlier definition of that reference.
C29_ValueRefsResolveEarlier ==
    (lw_st.pc = "ops" /\ lw_st.n < MaxPieces) =>
        /\ \A sopn \in Operations(lw_st.nregs, lw_st.cur) :
              \A R \in {lower_operation(lw_st, sopn)} : RefsResolved(lw_st, sopn, R)
        /\ \A r \in 1..MaxRefs :
              \A R \in {lower_operand(lw_st, SValueRef(r))} :
              \A ds \in {DefinitionsOf(lw_st, r)} :
                 IF ds = <<>>
                 THEN R.err = "no value reference" /\ R.nodes = lw_st.nodes
                 ELSE R.err = "" /\ R.val = ds[Len(ds)].node /\ R.nodes = lw_st.nodes

\* A reference was defined twice and an operation lowered after the second
\* definition uses the node of the second.
C29_Witness ==
    /\ lw_st.pc = "ops"
    /\ \E i, j \in DOMAIN lw_st.values :
          /\ i < j
          /\ lw_st.values[i].vr = lw_st.values[j].vr
          /\ lw_st.values[i].node # lw_st.values[j].node
          /\ \E d \in DOMAIN lw_st.data :
                /\ lw_st.data[d].to = lw_st.values[j].node
                /\ lw_st.data[d].from > lw_st.values[j].node

====
